---- MODULE Spec2Model ----
(***************************************************************************)
(* Model of curator's synchronisation-and-orchestration engine:            *)
(*   sthree.Bucket        (src/sthree/bucket.go)                           *)
(*   repobuilder.Job      (src/repobuilder/job.go)                         *)
(*                                                                         *)
(* A remote key Key(dir, n, ext) stands for the key name "<dir>/<n><ext>"  *)
(* and is a number whose order is the lexicographic order the store lists  *)
(* keys in.  dir 1 is "stable", dir 2 is "nightly", dir 3 is "other";      *)
(* ext 1 is ".rpm", ext 2 is ".rpm.sig", ext 3 is ".txt".  A prefix is a   *)
(* dir (the prefix "<dir>/") or 0 (the empty prefix).                      *)
(***************************************************************************)
EXTENDS Integers, Sequences, FiniteSets, TLC

\* ------------------------------------------------------------------ bounds

\* largest retry budget (numRetries) explored
MaxRetries == 3

\* the largest store explored holds MaxBatches full batches and one key
\* under "stable/"
MaxBatches == 1

\* number of remote repositories of the distro (len(j.Distro.Repos))
MaxRepos == 2

\* number of package paths handed to linkPackages (len(j.PackagePaths))
MaxPkgs == 2

\* number of files in the local tree a repository's SyncTo walks, and of keys
\* under the remote prefix its SyncFrom lists
MaxFiles == 1

\* number of entries of the local directory SyncTo walks, and of keys under
\* the prefix SyncFrom lists
MaxEntries == 2

\* number of SyncTo/SyncFrom calls made on one handle
MaxCalls == 2

\* number of failures (of a List call, of queue.Put, of a unit's transfer) the
\* store and the queue produce while the calls are made
MaxFaults == 2

\* number of handles, the first one and its clones
MaxHandles == 3

\* number of queue objects created
MaxPools == 3

\* largest minor version number
MaxMinor == 6

\* largest number of workers given to SetNumJobs
MaxJobs == 2

\* largest number of sleeps of one retried call (numRetries - 1)
MaxSleeps == 7

\* number of bits of an int in the model of doCollection (Go's int has 32 or
\* 64 bits; the arithmetic wraps around the same way at every width)
IntBits == 4

\* program constants
BatchSize == 1000

PageSize == 1000

\* getBackoff's Min, Max and Factor; delays are counted in units of 100 ms
BackoffMin == 1

BackoffMax == 50

BackoffFactor == 2

\* ------------------------------------------------------------------ state

VARIABLES
  bucket,     \* the handle the bucket operations act on (a Bucket struct)
  remote,     \* the store's keys, in listing order
  local,      \* the local files written by Get
  trace,      \* the remote calls and sleeps of the running/last operation
  ret,        \* the last operation and what it returned
  pc,         \* "idle", "deleteGroup" (inside the loop), "returned"
  items,      \* deleteGroup: the keys the items channel delivers, in order
  next,       \* deleteGroup: how many of them have been received
  batchFrom,  \* deleteGroup: toDelete.Objects is items[batchFrom+1 .. next]
  count       \* deleteGroup: count

bucketVars ==
  <<bucket, remote, local, trace, ret, pc, items, next, batchFrom, count>>

\* Job.Run
VARIABLES
  jobConf,     \* the job's fields: DryRun, Type (Distro.Type), Repos (how many)
  top,         \* the handle GetBucketWithProfile returned
  dry,         \* the handle DryRunClone returned
  cur,         \* which of the two Run's variable `bucket` holds: "top", "dry", "nil"
  clones,      \* clones[r]: the handle cloned for repository r
  tpc,         \* tpc[0]: where Run is; tpc[r]: where repository r's goroutine is
  pend,        \* pend[t]: the AddError call thread t is making
  tmp,         \* tmp[t]: the value of j.Errors thread t read inside addError
  Errors,      \* j.Errors
  IsComplete,  \* j.IsComplete
  mutex,       \* the threads holding j.mutex
  wg,          \* Run's WaitGroup counter
  loopI,       \* Run's position in j.Distro.Repos
  deferred,    \* Run's deferred calls, the next to run first
  steps,       \* steps[r]: the pipeline steps repository r's goroutine has called
  mutCalls,    \* mutCalls[r]: remote Put/Del/DelMulti calls made through clones[r]
  readCalls,   \* readCalls[r]: remote List/Get calls made through clones[r]
  added        \* the errors AddError has been called with

runVars ==
  <<jobConf, top, dry, cur, clones, tpc, pend, tmp, Errors, IsComplete, mutex,
    wg, loopI, deferred, steps, mutCalls, readCalls, added>>

\* Job.linkPackages
VARIABLES
  lpConf,      \* Type (j.Distro.Type) and pkgs (j.PackagePaths)
  lpPc,        \* "loop", "resolved" (the return value is computed), "returned"
  lpI,         \* the loop's position in j.PackagePaths
  destExists,  \* whether the staging directory dest exists
  mirrors,     \* the base names present in dest
  catcher,     \* the errors added to the catcher
  signWg,      \* the WaitGroup counter
  signPc,      \* signPc[i]: where the signing goroutine of package i is
  signRes,     \* signRes[i]: what signFile returned for package i
  lpRet        \* the errors in the value linkPackages returns

linkVars ==
  <<lpConf, lpPc, lpI, destExists, mirrors, catcher, signWg, signPc, signRes,
    lpRet>>

\* Bucket.SyncTo and Bucket.SyncFrom
VARIABLES
  tree,        \* the local directory SyncTo walks: its entries, in walk order
  pool,        \* the units handed to the handle's queue, in the order of the Put calls
  syncOp,      \* the running (or last) call: "SyncTo", "SyncFrom" or "none"
  syncPc,      \* "idle", "enqueue", "wait", "results", "returned"
  syncCall,    \* how many calls have been started on the handle
  syncPrefix,  \* the call's prefix
  syncItems,   \* what the call iterates over: the walk's entries or the listed keys
  syncI,       \* its position in syncItems
  syncCatcher, \* the errors added to the call's catcher
  syncListErr, \* whether a List call of the call's listing failed
  syncFaults,  \* how many remote calls and enqueues have failed so far
  syncHist     \* what each returned call did and returned

syncVars ==
  <<tree, pool, syncOp, syncPc, syncCall, syncPrefix, syncItems, syncI,
    syncCatcher, syncListErr, syncFaults, syncHist>>

\* handles and the worker pools they point to
VARIABLES
  hs,          \* hs[h]: the Bucket struct of handle h (Nil: not created)
  qid,         \* qid[h]: the queue object b.queue points to (0: nil)
  livePools,        \* the queue objects that are started and not closed
  nextQ,       \* the next queue object queue.NewLocalUnordered returns
  hLast        \* the last call: its name, its handles, its result, the state before

handleVars == <<hs, qid, livePools, nextQ, hLast>>

\* the job's package location
VARIABLES
  release,     \* j.release
  locPc,       \* "mkdir", "SyncFrom", "inject", "done"
  syncFromLoc, \* the subtree Run's SyncFrom was called with
  injectLoc    \* the subtree injectPackage was called with

locVars == <<release, locPc, syncFromLoc, injectLoc>>

\* the backoff of one retried call
VARIABLES
  backoff,     \* the call's Backoff struct and its attempt counter
  boRetries,   \* b.numRetries
  boPc,        \* "idle", "attempt", "sleep", "returned"
  boI,         \* the retry loop's i
  boCalls,     \* how many retried calls have been started
  slept        \* the delays the running (or last) call has slept, in order

backoffVars == <<backoff, boRetries, boPc, boI, boCalls, slept>>

\* Job.signFile
VARIABLES
  sfConf,      \* Type, release, the two tokens of the environment, overwrite
  sfPc,        \* "select", "check", "sign", "returned"
  keyName,     \* signFile's keyName
  token,       \* signFile's token
  sfRemoved,   \* whether os.Remove has been called
  sfRan,       \* whether the notary client has been run
  sfErr        \* whether signFile returned an error

signFileVars == <<sfConf, sfPc, keyName, token, sfRemoved, sfRan, sfErr>>

\* the configuration setters of one handle
VARIABLES
  sb,          \* the handle (a Bucket struct)
  sbPool,      \* the number of workers of the queue b.queue points to (0: none)
  sbLast       \* the last call: its name, its argument, its result, the state before

setterVars == <<sb, sbPool, sbLast>>

\* Bucket.list
VARIABLES
  lsStore,     \* the store: its keys, and how it answers a List call
  lsPrefix,    \* list's prefix
  lsLastKey,   \* the goroutine's lastKey
  output,      \* the keys sent to the output channel, in order
  lsReq,       \* the marker and the max of the last List call (max 0: none made)
  lsPc         \* "loop", "closed" (close(output) has run)

listVars == <<lsStore, lsPrefix, lsLastKey, output, lsReq, lsPc>>

\* operations.doCollection
VARIABLES
  dcArg,       \* the count doCollection was called with
  dcCount,     \* the local count
  dcOps,       \* the number of times op has been invoked
  dcSleeps,    \* the number of times time.Sleep(interval) has been called
  dcRet,       \* the result: "none" (not returned), "nil", "err"
  dcPc         \* "op", "dec", "sleep", "returned"

collectVars == <<dcArg, dcCount, dcOps, dcSleeps, dcRet, dcPc>>

otherThanBucket == <<runVars, linkVars, syncVars, handleVars, locVars, backoffVars, signFileVars, setterVars, listVars, collectVars>>

otherThanRun == <<bucketVars, linkVars, syncVars, handleVars, locVars, backoffVars, signFileVars, setterVars, listVars, collectVars>>

otherThanLink == <<bucketVars, runVars, syncVars, handleVars, locVars, backoffVars, signFileVars, setterVars, listVars, collectVars>>

otherThanSync == <<runVars, linkVars, handleVars, locVars, backoffVars, signFileVars, setterVars, listVars, collectVars>>

otherThanHandles == <<bucketVars, runVars, linkVars, syncVars, locVars, backoffVars, signFileVars, setterVars, listVars, collectVars>>

otherThanLoc == <<bucketVars, runVars, linkVars, syncVars, handleVars, backoffVars, signFileVars, setterVars, listVars, collectVars>>

otherThanBackoff ==
  <<bucketVars, runVars, linkVars, syncVars, handleVars, locVars, signFileVars, setterVars, listVars, collectVars>>

otherThanSignFile ==
  <<bucketVars, runVars, linkVars, syncVars, handleVars, locVars, backoffVars,
    setterVars, listVars, collectVars>>

otherThanSetters ==
  <<bucketVars, runVars, linkVars, syncVars, handleVars, locVars, backoffVars,
    signFileVars, listVars, collectVars>>

otherThanList ==
  <<bucketVars, runVars, linkVars, syncVars, handleVars, locVars, backoffVars,
    signFileVars, setterVars, collectVars>>

otherThanCollect ==
  <<bucketVars, runVars, linkVars, syncVars, handleVars, locVars, backoffVars,
    signFileVars, setterVars, listVars>>

\* ---------------------------------------------------------------- helpers

Min(a, b) == IF a < b THEN a ELSE b

Range(s) == {s[i] : i \in 1..Len(s)}

Key(dir, n, ext) == dir * 1000000 + n * 10 + ext

KeyDir(k) == k \div 1000000

KeyExt(k) == k % 10

\* the empty marker
NoKey == Key(0, 0, 0)

KeyLess(a, b) == a < b

HasPrefix(k, prefix) == prefix = 0 \/ KeyDir(k) = prefix

Event(ev, keys) == [ev |-> ev, keys |-> keys]

\* the events of a trace that are the remote call `ev`
Calls(tr, ev) == SelectSeq(tr, LAMBDA e : e.ev = ev)

Mutating(tr) == SelectSeq(tr, LAMBDA e : e.ev \in {"Put", "Del", "DelMulti"})

\* the store after key k is written / after the keys of ks are removed
StorePut(store, k) ==
  IF k \in Range(store) THEN store
  ELSE SelectSeq(store, LAMBDA x : KeyLess(x, k)) \o <<k>>
       \o SelectSeq(store, LAMBDA x : KeyLess(k, x))

StoreDel(store, ks) ==
  LET gone == Range(ks) IN SelectSeq(store, LAMBDA x : x \notin gone)

\* the store's answer to List(prefix, "", marker, max)
RemoteList(store, prefix, marker, max) ==
  LET m == SelectSeq(store, LAMBDA k : HasPrefix(k, prefix) /\ KeyLess(marker, k))
  IN  [Contents |-> SubSeq(m, 1, Min(max, Len(m))), IsTruncated |-> Len(m) > max]

\* ------------------------------------------------------------- the handle

NewHandle(isDry, retries) ==
  [name |-> "repo", NewFilePermission |-> "private", open |-> TRUE,
   dryRun |-> isDry, numJobs |-> 2, numRetries |-> retries, queue |-> "started"]

\* ------------------------------------------------------------------ list

\* Bucket.list: the keys sent on the output channel before it is closed, and
\* the List calls made.  failAt is the page whose List call returns an error
\* (0: none does).
RECURSIVE listPages(_, _, _, _, _, _)
listPages(store, prefix, lastKey, page, failAt, out) ==
  IF page = failAt
  THEN [keys |-> out, calls |-> page, failed |-> TRUE]
  ELSE LET results == RemoteList(store, prefix, lastKey, PageSize)
           n       == Len(results.Contents)
           out2    == out \o results.Contents
           last2   == IF n > 0 THEN results.Contents[n] ELSE lastKey
       IN  IF ~results.IsTruncated
           THEN [keys |-> out2, calls |-> page, failed |-> FALSE]
           ELSE listPages(store, prefix, last2, page + 1, failAt, out2)

list(store, prefix, failAt) == listPages(store, prefix, NoKey, 1, failAt, <<>>)

listTrace(n) == [i \in 1..n |-> Event("List", <<>>)]

\* Bucket.contents: the listing as a map; its domain is what callers use
contents(store, prefix, failAt) == Range(list(store, prefix, failAt).keys)

\* ------------------------------------------------- Exists, Put, Get

\* The retry loops.  The remote call fails on attempts 1..succAt-1 and
\* succeeds on attempt succAt (succAt > numRetries: it never succeeds within
\* the budget).  st.tr is the trace so far, st.err whether err is non-nil.
\* mutant: the loop also sleeps after its last attempt
RECURSIVE retryLoopSleepsAfterLast(_, _, _, _, _, _)
retryLoopSleepsAfterLast(b, ev, path, i, succAt, st) ==
  IF ~(i <= b.numRetries) THEN st
  ELSE LET called == Append(st.tr, Event(ev, <<path>>))
       IN  IF i = succAt
           THEN [tr |-> called, err |-> FALSE, done |-> TRUE]
           ELSE retryLoopSleepsAfterLast(b, ev, path, i + 1, succAt,
                  [tr   |-> Append(called, Event("sleep", <<>>)),
                   err  |-> TRUE,
                   done |-> FALSE])

RECURSIVE retryLoop(_, _, _, _, _, _)
retryLoop(b, ev, path, i, succAt, st) ==
  IF ~(i <= b.numRetries) THEN st
  ELSE LET called == Append(st.tr, Event(ev, <<path>>))
       IN  IF i = succAt
           THEN [tr |-> called, err |-> FALSE, done |-> TRUE]
           ELSE retryLoop(b, ev, path, i + 1, succAt,
                  [tr   |-> IF i < b.numRetries
                            THEN Append(called, Event("sleep", <<>>))
                            ELSE called,
                   err  |-> TRUE,
                   done |-> FALSE])

RetryStart == [tr |-> <<>>, err |-> FALSE, done |-> FALSE]

\* Bucket.Exists: (exists, err)
ExistsOp(b, store, path, succAt) ==
  LET r == retryLoop(b, "Exists", path, 1, succAt, RetryStart)
  IN  [tr |-> r.tr, err |-> r.err, contacted |-> r.done,
       val |-> r.done /\ path \in Range(store)]

\* Bucket.Put
PutOp(b, path, fileExists, readOk, succAt) ==
  IF ~fileExists THEN [tr |-> <<>>, err |-> TRUE, contacted |-> FALSE]
  ELSE IF ~readOk THEN [tr |-> <<>>, err |-> TRUE, contacted |-> FALSE]
  ELSE IF b.dryRun THEN [tr |-> <<>>, err |-> FALSE, contacted |-> FALSE]
  ELSE LET r == retryLoop(b, "Put", path, 1, succAt, RetryStart)
       IN  [tr |-> r.tr, err |-> r.err, contacted |-> r.done]

\* Bucket.Get: mkdir says whether MkdirAll was called, wrote whether the
\* local file was written
GetOp(b, path, succAt, dirExists, mkdirOk, writeOk) ==
  LET r == retryLoop(b, "Get", path, 1, succAt, RetryStart)
  IN  IF r.err
      THEN [tr |-> r.tr, err |-> TRUE, contacted |-> FALSE, mkdir |-> FALSE,
            wrote |-> FALSE]
      ELSE IF ~dirExists /\ ~mkdirOk
      THEN [tr |-> r.tr, err |-> TRUE, contacted |-> r.done, mkdir |-> TRUE,
            wrote |-> FALSE]
      ELSE [tr |-> r.tr, err |-> ~writeOk, contacted |-> r.done,
            mkdir |-> ~dirExists, wrote |-> writeOk]

\* ------------------------------------------------ the operations' inputs

\* "nightly/1.rpm", which the store holds, and "other/1.rpm", which it does not
OpKeys == {Key(2, 1, 1), Key(3, 1, 1)}

Prefixes == {0, 1, 2}

\* a regular expression: whether it compiles, and the dir and extension a
\* key name must have to match it (0: any)
Expressions ==
  {[valid |-> FALSE, dir |-> 0, ext |-> 0],
   [valid |-> TRUE,  dir |-> 0, ext |-> 0],
   [valid |-> TRUE,  dir |-> 2, ext |-> 1]}

MatchString(expr, k) ==
  /\ expr.dir = 0 \/ KeyDir(k) = expr.dir
  /\ expr.ext = 0 \/ KeyExt(k) = expr.ext

\* the largest number of List calls one listing can make
MaxPages == MaxBatches + 2

\* the store with n keys under "stable/" and three under "nightly/"
InitStore(n) ==
  [i \in 1..n |-> Key(1, i, 1)] \o <<Key(2, 1, 1), Key(2, 1, 2), Key(2, 1, 3)>>

Ret(op, err) ==
  [op |-> op, err |-> err, val |-> FALSE, succAt |-> 0, contacted |-> FALSE,
   mkdir |-> FALSE, wrote |-> FALSE, args |-> <<>>, listFailed |-> FALSE]

\* ------------------------------------------------------- bucket operations

ExistsCall ==
  /\ pc = "idle"
  /\ \E path \in OpKeys, succAt \in 1..(bucket.numRetries + 1) :
       LET r == ExistsOp(bucket, remote, path, succAt)
       IN  /\ trace' = r.tr
           /\ ret' = [Ret("Exists", r.err) EXCEPT !.val = r.val,
                        !.succAt = succAt, !.contacted = r.contacted,
                        !.args = <<path>>]
  /\ pc' = "returned"
  /\ UNCHANGED <<bucket, remote, local, items, next, batchFrom, count>>
  /\ UNCHANGED otherThanBucket

PutCall ==
  /\ pc = "idle"
  /\ \E path \in OpKeys, fileExists \in BOOLEAN, readOk \in BOOLEAN,
        succAt \in 1..(bucket.numRetries + 1) :
       LET r == PutOp(bucket, path, fileExists, readOk, succAt)
       IN  /\ trace' = r.tr
           /\ ret' = [Ret("Put", r.err) EXCEPT !.succAt = succAt,
                        !.contacted = r.contacted,
                        !.args = <<path, fileExists, readOk>>]
           /\ remote' = IF r.contacted THEN StorePut(remote, path) ELSE remote
  /\ pc' = "returned"
  /\ UNCHANGED <<bucket, local, items, next, batchFrom, count>>
  /\ UNCHANGED otherThanBucket

GetCall ==
  /\ pc = "idle"
  /\ \E path \in OpKeys, s \in 1..(bucket.numRetries + 1),
        dirExists \in BOOLEAN, mkdirOk \in BOOLEAN, writeOk \in BOOLEAN :
       LET succAt == IF path \in Range(remote) THEN s ELSE bucket.numRetries + 1
           r == GetOp(bucket, path, succAt, dirExists, mkdirOk, writeOk)
       IN  /\ trace' = r.tr
           /\ ret' = [Ret("Get", r.err) EXCEPT !.succAt = succAt,
                        !.contacted = r.contacted, !.mkdir = r.mkdir,
                        !.wrote = r.wrote,
                        !.args = <<path, dirExists, mkdirOk, writeOk>>]
           /\ local' = IF r.wrote THEN local \cup {path} ELSE local
  /\ pc' = "returned"
  /\ UNCHANGED <<bucket, remote, items, next, batchFrom, count>>
  /\ UNCHANGED otherThanBucket

\* Bucket.Delete: the trace and error of a single-key delete
DeleteOp(b, path, ok) == [tr |-> <<Event("Del", <<path>>)>>, err |-> ~ok]

DeleteCall ==
  /\ pc = "idle"
  /\ \E path \in OpKeys, ok \in BOOLEAN :
       LET r == DeleteOp(bucket, path, ok)
       IN  /\ trace' = r.tr
           /\ ret' = Ret("Delete", r.err)
           /\ remote' = IF ok THEN StoreDel(remote, <<path>>) ELSE remote
  /\ pc' = "returned"
  /\ UNCHANGED <<bucket, local, items, next, batchFrom, count>>
  /\ UNCHANGED otherThanBucket

\* entering deleteGroup with `keys` coming out of the items channel; `failed`
\* says that a List call of the listing failed, which list only logs
EnterDeleteGroup(op, args, keys, listing, failed) ==
  /\ items' = keys
  /\ next' = 0
  /\ batchFrom' = 0
  /\ count' = 0
  /\ trace' = listing
  /\ ret' = [Ret(op, FALSE) EXCEPT !.args = args, !.listFailed = failed]
  /\ pc' = "deleteGroup"
  /\ UNCHANGED <<bucket, remote, local>>

\* the argument lists DeleteMany is called with
ManyPaths ==
  {<<>>, <<Key(2, 1, 1)>>, <<Key(3, 1, 1)>>, <<Key(2, 1, 1), Key(2, 1, 3)>>,
   <<Key(2, 1, 1), Key(3, 1, 1)>>, remote}

DeleteManyCall ==
  /\ pc = "idle"
  /\ \E paths \in ManyPaths :
       IF Len(paths) = 1
       THEN /\ IF bucket.dryRun
               THEN /\ trace' = <<>>
                    /\ ret' = [Ret("DeleteMany", FALSE) EXCEPT !.args = <<paths>>]
                    /\ remote' = remote
               ELSE \E ok \in BOOLEAN :
                      LET r == DeleteOp(bucket, paths[1], ok)
                      IN  /\ trace' = r.tr
                          /\ ret' = [Ret("DeleteMany", r.err) EXCEPT
                                       !.args = <<paths>>]
                          /\ remote' = IF ok THEN StoreDel(remote, paths) ELSE remote
            /\ pc' = "returned"
            /\ UNCHANGED <<bucket, local, items, next, batchFrom, count>>
       ELSE \E failAt \in 0..MaxPages :
              LET l == list(remote, 0, failAt)
                  have == Range(l.keys)
              IN  EnterDeleteGroup("DeleteMany", <<paths>>,
                    SelectSeq(paths, LAMBDA p : p \in have), listTrace(l.calls),
                    l.failed)
  /\ UNCHANGED otherThanBucket

DeletePrefixCall ==
  /\ pc = "idle"
  /\ \E prefix \in Prefixes, failAt \in 0..MaxPages :
       LET l == list(remote, prefix, failAt)
       IN  EnterDeleteGroup("DeletePrefix", <<prefix>>, l.keys,
                            listTrace(l.calls), l.failed)
  /\ UNCHANGED otherThanBucket

DeleteMatchingCall ==
  /\ pc = "idle"
  /\ \E prefix \in Prefixes, expression \in Expressions :
       IF ~expression.valid
       THEN /\ trace' = <<>>
            /\ ret' = [Ret("DeleteMatching", TRUE) EXCEPT
                         !.args = <<prefix, expression>>]
            /\ pc' = "returned"
            /\ UNCHANGED <<bucket, remote, local, items, next, batchFrom, count>>
       ELSE \E failAt \in 0..MaxPages :
              LET l == list(remote, prefix, failAt)
              IN  EnterDeleteGroup("DeleteMatching", <<prefix, expression>>,
                    SelectSeq(l.keys, LAMBDA k : MatchString(expression, k)),
                    listTrace(l.calls), l.failed)
  /\ UNCHANGED otherThanBucket

\* deleteGroup: toDelete.Objects, the keys received since the batch was reset
toDelete == SubSeq(items, batchFrom + 1, next)

\* deleteGroup returns: with the result of a DelMulti call, or nil
ReturnDelMulti(ok) ==
  /\ trace' = Append(trace, Event("DelMulti", toDelete))
  /\ remote' = IF ok THEN StoreDel(remote, toDelete) ELSE remote
  /\ ret' = [ret EXCEPT !.err = ~ok]
  /\ pc' = "returned"
  /\ UNCHANGED <<bucket, local, items, next, batchFrom, count>>

ReturnNil ==
  /\ pc' = "returned"
  /\ UNCHANGED <<bucket, remote, local, trace, ret, items, next, batchFrom, count>>

\* one iteration of deleteGroup's loop, and what follows the loop when the
\* channel is closed
deleteGroup ==
  /\ pc = "deleteGroup"
  /\ IF count = BatchSize /\ ~bucket.dryRun
     THEN \E ok \in BOOLEAN : ReturnDelMulti(ok)
     ELSE LET full == count = BatchSize
              from == IF full THEN next ELSE batchFrom
              cnt  == IF full THEN 0 ELSE count
          IN  IF next < Len(items)
              THEN /\ next' = next + 1
                   /\ batchFrom' = from
                   /\ count' = cnt + 1
                   /\ UNCHANGED <<bucket, remote, local, trace, ret, pc, items>>
              ELSE IF next - from > 0 /\ ~bucket.dryRun
                   THEN \E ok \in BOOLEAN : ReturnDelMulti(ok)
                   ELSE ReturnNil
  /\ UNCHANGED otherThanBucket

InitBucket(isDry, retries, n) ==
  /\ bucket = NewHandle(isDry, retries)
  /\ remote = InitStore(n)
  /\ local = {}
  /\ trace = <<>>
  /\ ret = Ret("none", FALSE)
  /\ pc = "idle"
  /\ items = <<>>
  /\ next = 0
  /\ batchFrom = 0
  /\ count = 0

\* =================================================================== Job.Run

Threads == 0..MaxRepos

Nil ==
  [name |-> "nil", NewFilePermission |-> "", open |-> FALSE, dryRun |-> FALSE,
   numJobs |-> 0, numRetries |-> 0, queue |-> "none"]

\* sthree.GetBucketWithProfile: a registered handle that is not open yet
GetBucketWithProfile ==
  [name |-> "repo", NewFilePermission |-> "private", open |-> FALSE,
   dryRun |-> FALSE, numJobs |-> 2, numRetries |-> MaxRetries, queue |-> "none"]

\* Bucket.Open: startOk is whether queue.Start() returns nil
Open(b, startOk) ==
  IF b.open THEN [b |-> b, err |-> FALSE]
  ELSE [b   |-> [b EXCEPT !.open = TRUE,
                          !.queue = IF startOk THEN "started" ELSE "failed"],
        err |-> ~startOk]

\* Bucket.Close
Close(b) ==
  IF b.open THEN [b EXCEPT !.open = FALSE, !.queue = "closed"] ELSE b

\* Bucket.Clone: (clone, err)
Clone(b, startOk) ==
  LET clone == [name |-> b.name, NewFilePermission |-> b.NewFilePermission,
                open |-> FALSE, dryRun |-> FALSE, numJobs |-> b.numJobs,
                numRetries |-> b.numRetries, queue |-> "none"]
  IN  IF b.open
      THEN LET r == Open(clone, startOk)
           IN  IF r.err THEN [b |-> Nil, err |-> TRUE] ELSE [b |-> r.b, err |-> FALSE]
      ELSE [b |-> clone, err |-> FALSE]

\* Bucket.DryRunClone: (clone, err)
DryRunClone(b, startOk) ==
  LET r == Clone(b, startOk)
  IN  IF r.err THEN [b |-> Nil, err |-> TRUE]
      ELSE [b |-> [r.b EXCEPT !.dryRun = TRUE], err |-> FALSE]

\* what a sync job does when a worker runs it: the handle's Put or Get
syncToJobRun(b, path, succAt) == PutOp(b, path, TRUE, TRUE, succAt)

syncFromJobRun(b, path, succAt) == GetOp(b, path, succAt, TRUE, TRUE, TRUE)

\* Bucket.SyncTo over a local tree of n files, every remote Put succeeding on
\* attempt succAt: the remote calls made and whether the error is non-nil
SyncTo(b, n, succAt) ==
  LET r == syncToJobRun(b, Key(1, 1, 1), succAt)
  IN  [list |-> 1,
       puts |-> n * Len(Calls(r.tr, "Put")),
       err  |-> n > 0 /\ r.err]

\* Bucket.SyncFrom of a prefix holding n keys
SyncFrom(b, n, succAt) ==
  LET r == syncFromJobRun(b, Key(1, 1, 1), succAt)
  IN  [list |-> 1,
       gets |-> n * Len(Calls(r.tr, "Get")),
       err  |-> n > 0 /\ r.err]

NoPend == [err |-> [repo |-> 0, step |-> "none"], then |-> "none"]

Bucket == IF cur = "dry" THEN dry ELSE IF cur = "top" THEN top ELSE Nil

\* ---- JobBase.addError, called by thread t with a non-nil error

AddError(t, e, then) ==
  /\ pend' = [pend EXCEPT ![t] = [err |-> e, then |-> then]]
  /\ tpc' = [tpc EXCEPT ![t] = "addError"]
  /\ added' = added \cup {e}

\* mutant: addError does not take the lock
MutexNotTaken == TRUE

\* j.mutex.Lock() returns
MutexFree == mutex = {}

addErrorLock(t) ==
  /\ tpc[t] = "addError"
  /\ MutexFree
  /\ mutex' = mutex \cup {t}
  /\ tmp' = [tmp EXCEPT ![t] = Errors]
  /\ tpc' = [tpc EXCEPT ![t] = "addErrorLocked"]
  /\ UNCHANGED <<jobConf, top, dry, cur, clones, pend, Errors, IsComplete, wg,
                 loopI, deferred, steps, mutCalls, readCalls, added>>
  /\ UNCHANGED otherThanRun

addErrorAppend(t) ==
  /\ tpc[t] = "addErrorLocked"
  /\ Errors' = Append(tmp[t], pend[t].err)
  /\ mutex' = mutex \ {t}
  /\ tmp' = [tmp EXCEPT ![t] = <<>>]
  /\ tpc' = [tpc EXCEPT ![t] = pend[t].then]
  /\ pend' = [pend EXCEPT ![t] = NoPend]
  /\ UNCHANGED <<jobConf, top, dry, cur, clones, IsComplete, wg, loopI,
                 deferred, steps, mutCalls, readCalls, added>>
  /\ UNCHANGED otherThanRun

\* ---- Run

RunErr(step) == [repo |-> 0, step |-> step]

\* mutant: Run goes on after the error instead of returning
AfterOpenErrorGoesOn == "perm"

\* where Run goes once it has recorded that a handle could not be opened or
\* derived: it returns
AfterOpenError == "return"

RunOpen ==
  /\ tpc[0] = "open"
  /\ \E startOk \in BOOLEAN :
       LET r == Open(GetBucketWithProfile, startOk)
       IN  /\ top' = r.b
           /\ cur' = "top"
           /\ IF r.err
              THEN /\ AddError(0, RunErr("open"), AfterOpenError)
                   /\ UNCHANGED deferred
              ELSE /\ tpc' = [tpc EXCEPT ![0] =
                                IF jobConf.DryRun THEN "dryClone" ELSE "perm"]
                   /\ deferred' = <<"closeTop">> \o deferred
                   /\ UNCHANGED <<pend, added>>
  /\ UNCHANGED <<jobConf, dry, clones, tmp, Errors, IsComplete, mutex, wg,
                 loopI, steps, mutCalls, readCalls>>
  /\ UNCHANGED otherThanRun

RunDryClone ==
  /\ tpc[0] = "dryClone"
  /\ \E startOk \in BOOLEAN :
       LET r == DryRunClone(Bucket, startOk)
       IN  IF r.err
           THEN /\ cur' = "nil"
                /\ AddError(0, RunErr("dryClone"), AfterOpenError)
                /\ UNCHANGED dry
           ELSE /\ dry' = r.b
                /\ cur' = "dry"
                /\ tpc' = [tpc EXCEPT ![0] = "dryOpen"]
                /\ UNCHANGED <<pend, added>>
  /\ UNCHANGED <<jobConf, top, clones, tmp, Errors, IsComplete, mutex, wg,
                 loopI, deferred, steps, mutCalls, readCalls>>
  /\ UNCHANGED otherThanRun

RunDryOpen ==
  /\ tpc[0] = "dryOpen"
  /\ \E startOk \in BOOLEAN :
       LET r == Open(dry, startOk)
       IN  /\ dry' = r.b
           /\ IF r.err
              THEN /\ AddError(0, RunErr("dryOpen"), AfterOpenError)
                   /\ UNCHANGED deferred
              ELSE /\ tpc' = [tpc EXCEPT ![0] = "perm"]
                   /\ deferred' = <<"closeDry">> \o deferred
                   /\ UNCHANGED <<pend, added>>
  /\ UNCHANGED <<jobConf, top, cur, clones, tmp, Errors, IsComplete, mutex, wg,
                 loopI, steps, mutCalls, readCalls>>
  /\ UNCHANGED otherThanRun

\* bucket.NewFilePermission = s3.PublicRead; defer j.MarkComplete()
RunPerm ==
  /\ tpc[0] = "perm"
  /\ IF cur = "dry"
     THEN dry' = [dry EXCEPT !.NewFilePermission = "public-read"] /\ UNCHANGED top
     ELSE top' = [top EXCEPT !.NewFilePermission = "public-read"] /\ UNCHANGED dry
  /\ deferred' = <<"markComplete">> \o deferred
  /\ tpc' = [tpc EXCEPT ![0] = "loop"]
  /\ UNCHANGED <<jobConf, cur, clones, pend, tmp, Errors, IsComplete, mutex, wg,
                 loopI, steps, mutCalls, readCalls, added>>
  /\ UNCHANGED otherThanRun

\* one iteration of the loop over j.Distro.Repos
RunLoop ==
  /\ tpc[0] = "loop"
  /\ loopI <= jobConf.Repos
  /\ loopI' = loopI + 1
  /\ \E startOk \in BOOLEAN :
       LET r == Clone(Bucket, startOk)
       IN  IF r.err
           THEN /\ AddError(0, [repo |-> loopI, step |-> "clone"], "loop")
                /\ UNCHANGED <<clones, wg>>
           ELSE /\ clones' = [clones EXCEPT ![loopI] = r.b]
                /\ wg' = wg + 1
                /\ tpc' = [tpc EXCEPT ![loopI] = "mkdir"]
                /\ UNCHANGED <<pend, added>>
  /\ UNCHANGED <<jobConf, top, dry, cur, tmp, Errors, IsComplete, mutex,
                 deferred, steps, mutCalls, readCalls>>
  /\ UNCHANGED otherThanRun

\* wg.Wait() returns
WaitGroupDone == wg = 0

RunWait ==
  /\ tpc[0] = "loop"
  /\ loopI > jobConf.Repos
  /\ WaitGroupDone
  /\ tpc' = [tpc EXCEPT ![0] = "return"]
  /\ UNCHANGED <<jobConf, top, dry, cur, clones, pend, tmp, Errors, IsComplete,
                 mutex, wg, loopI, deferred, steps, mutCalls, readCalls, added>>
  /\ UNCHANGED otherThanRun

\* Run returns: the deferred calls run, the last deferred first
RunReturn ==
  /\ tpc[0] = "return"
  /\ IF deferred = <<>>
     THEN /\ tpc' = [tpc EXCEPT ![0] = "done"]
          /\ UNCHANGED <<top, dry, IsComplete, deferred>>
     ELSE /\ deferred' = Tail(deferred)
          /\ UNCHANGED tpc
          /\ IF Head(deferred) = "markComplete"
             THEN /\ MutexFree
                  /\ IsComplete' = TRUE
                  /\ UNCHANGED <<top, dry>>
             ELSE IF Head(deferred) = "closeDry"
             THEN /\ dry' = Close(dry)
                  /\ UNCHANGED <<top, IsComplete>>
             ELSE /\ top' = Close(top)
                  /\ UNCHANGED <<dry, IsComplete>>
  /\ UNCHANGED <<jobConf, cur, clones, pend, tmp, Errors, mutex, wg, loopI,
                 steps, mutCalls, readCalls, added>>
  /\ UNCHANGED otherThanRun

\* ---- the goroutine of repository r

Step(r, name) == steps' = [steps EXCEPT ![r] = Append(@, name)]

RepoErr(r, step) == [repo |-> r, step |-> step]

\* mutant: a failed step ends the goroutine without recording the error
ThenDropsError(r, step, ok, after) ==
  /\ tpc' = [tpc EXCEPT ![r] = IF ok THEN after ELSE "wgDone"]
  /\ UNCHANGED <<pend, added>>

\* after a step: on to the next one, or AddError and return
Then(r, step, ok, after) ==
  IF ok
  THEN /\ tpc' = [tpc EXCEPT ![r] = after]
       /\ UNCHANGED <<pend, added>>
  ELSE AddError(r, RepoErr(r, step), "wgDone")

GoMkdir(r) ==
  /\ tpc[r] = "mkdir"
  /\ Step(r, "mkdir")
  /\ \E ok \in BOOLEAN : Then(r, "mkdir", ok, "SyncFrom")
  /\ UNCHANGED <<jobConf, top, dry, cur, clones, tmp, Errors, IsComplete, mutex,
                 wg, loopI, deferred, mutCalls, readCalls>>
  /\ UNCHANGED otherThanRun

GoSyncFrom(r) ==
  /\ tpc[r] = "SyncFrom"
  /\ Step(r, "SyncFrom")
  /\ \E succAt \in {1, clones[r].numRetries + 1} :
       LET s == SyncFrom(clones[r], MaxFiles, succAt)
       IN  /\ readCalls' = [readCalls EXCEPT ![r] = @ + s.list + s.gets]
           /\ Then(r, "SyncFrom", ~s.err, "inject")
  /\ UNCHANGED <<jobConf, top, dry, cur, clones, tmp, Errors, IsComplete, mutex,
                 wg, loopI, deferred, mutCalls>>
  /\ UNCHANGED otherThanRun

\* whether NewBuildRepoJob has set j.builder: setupDEBJob and setupRPMJob do,
\* a job of any other type is left with the nil interface
HasBuilder(type) == type \in {"DEB", "RPM"}

\* j.injectNewPackages(local): a call of j.builder.injectPackage, which
\* panics on a nil builder
GoInject(r) ==
  /\ tpc[r] = "inject"
  /\ Step(r, "inject")
  /\ IF HasBuilder(jobConf.Type)
     THEN \E ok \in BOOLEAN : Then(r, "inject", ok, "rebuild")
     ELSE /\ tpc' = [tpc EXCEPT ![r] = "panicking"]
          /\ UNCHANGED <<pend, added>>
  /\ UNCHANGED <<jobConf, top, dry, cur, clones, tmp, Errors, IsComplete, mutex,
                 wg, loopI, deferred, mutCalls, readCalls>>
  /\ UNCHANGED otherThanRun

GoRebuild(r) ==
  /\ tpc[r] = "rebuild"
  /\ Step(r, "rebuild")
  /\ \E ok \in BOOLEAN : Then(r, "rebuild", ok, "upload")
  /\ UNCHANGED <<jobConf, top, dry, cur, clones, tmp, Errors, IsComplete, mutex,
                 wg, loopI, deferred, mutCalls, readCalls>>
  /\ UNCHANGED otherThanRun

\* the choice of syncSource by j.Distro.Type, and SyncTo
GoUpload(r) ==
  /\ tpc[r] = "upload"
  /\ IF jobConf.Type \notin {"DEB", "RPM"}
     THEN /\ AddError(r, RepoErr(r, "unsupported"), "wgDone")
          /\ UNCHANGED <<steps, mutCalls, readCalls>>
     ELSE /\ Step(r, "SyncTo")
          /\ \E succAt \in {1, clones[r].numRetries + 1} :
               LET s == SyncTo(clones[r], MaxFiles, succAt)
               IN  /\ readCalls' = [readCalls EXCEPT ![r] = @ + s.list]
                   /\ mutCalls' = [mutCalls EXCEPT ![r] = @ + s.puts]
                   /\ Then(r, "SyncTo", ~s.err, "wgDone")
  /\ UNCHANGED <<jobConf, top, dry, cur, clones, tmp, Errors, IsComplete, mutex,
                 wg, loopI, deferred>>
  /\ UNCHANGED otherThanRun

\* the goroutine's deferred calls, the last deferred first: wg.Done(), then
\* b.Close(); they run when the goroutine returns and when it panics
GoDone(r) ==
  /\ tpc[r] \in {"wgDone", "panicking"}
  /\ wg' = wg - 1
  /\ tpc' = [tpc EXCEPT ![r] = IF tpc[r] = "wgDone" THEN "close" ELSE "panicClose"]
  /\ UNCHANGED <<jobConf, top, dry, cur, clones, pend, tmp, Errors, IsComplete,
                 mutex, loopI, deferred, steps, mutCalls, readCalls, added>>
  /\ UNCHANGED otherThanRun

GoClose(r) ==
  /\ tpc[r] \in {"close", "panicClose"}
  /\ clones' = [clones EXCEPT ![r] = Close(@)]
  /\ tpc' = [tpc EXCEPT ![r] = IF tpc[r] = "close" THEN "finished" ELSE "exit"]
  /\ UNCHANGED <<jobConf, top, dry, cur, pend, tmp, Errors, IsComplete, mutex,
                 wg, loopI, deferred, steps, mutCalls, readCalls, added>>
  /\ UNCHANGED otherThanRun

\* the panic of goroutine r is not recovered: once its deferred calls have
\* run the process exits, and every goroutine stops where it is
GoExit(r) ==
  /\ tpc[r] = "exit"
  /\ tpc' = [t \in Threads |-> "crashed"]
  /\ UNCHANGED <<jobConf, top, dry, cur, clones, pend, tmp, Errors, IsComplete,
                 mutex, wg, loopI, deferred, steps, mutCalls, readCalls, added>>
  /\ UNCHANGED otherThanRun

InitRunWith(conf) ==
  /\ jobConf = conf
  /\ top = Nil
  /\ dry = Nil
  /\ cur = "nil"
  /\ clones = [r \in 1..MaxRepos |-> Nil]
  /\ tpc = [t \in Threads |-> IF t = 0 THEN "open" ELSE "idle"]
  /\ pend = [t \in Threads |-> NoPend]
  /\ tmp = [t \in Threads |-> <<>>]
  /\ Errors = <<>>
  /\ IsComplete = FALSE
  /\ mutex = {}
  /\ wg = 0
  /\ loopI = 1
  /\ deferred = <<>>
  /\ steps = [r \in 1..MaxRepos |-> <<>>]
  /\ mutCalls = [r \in 1..MaxRepos |-> 0]
  /\ readCalls = [r \in 1..MaxRepos |-> 0]
  /\ added = {}

JobConfs ==
  [DryRun : BOOLEAN, Type : {"RPM", "DEB", "OTHER"}, Repos : 1..MaxRepos]

\* no job is running
IdleRun == InitRunWith([DryRun |-> FALSE, Type |-> "RPM", Repos |-> 1])

\* ========================================================== Job.linkPackages

\* a package path: its base name, and whether it ends in ".deb"
PkgKinds == [base : 1..2, deb : BOOLEAN]

LinkErr(i, kind) == [pkg |-> i, kind |-> kind]

\* mutant: the packages of every target are signed
SignsEveryType(type) == TRUE

\* if j.Distro.Type == RPM: whether a newly linked package is signed
SignsPackages(type) == type = "RPM"

\* the loop body for j.PackagePaths[lpI]
linkPackage ==
  /\ lpPc = "loop"
  /\ lpI <= Len(lpConf.pkgs)
  /\ lpI' = lpI + 1
  /\ LET pkg == lpConf.pkgs[lpI]
     IN  IF lpConf.Type = "DEB" /\ ~pkg.deb
         THEN UNCHANGED <<destExists, mirrors, catcher, signWg, signPc>>
         ELSE \E mkdirOk \in BOOLEAN, linkOk \in BOOLEAN :
                IF ~destExists /\ ~mkdirOk
                THEN /\ catcher' = catcher \cup {LinkErr(lpI, "mkdir")}
                     /\ UNCHANGED <<destExists, mirrors, signWg, signPc>>
                ELSE /\ destExists' = TRUE
                     /\ IF pkg.base \notin mirrors
                        THEN IF ~linkOk
                             THEN /\ catcher' = catcher \cup {LinkErr(lpI, "link")}
                                  /\ UNCHANGED <<mirrors, signWg, signPc>>
                             ELSE /\ mirrors' = mirrors \cup {pkg.base}
                                  /\ IF SignsPackages(lpConf.Type)
                                     THEN /\ signWg' = signWg + 1
                                          /\ signPc' = [signPc EXCEPT ![lpI] = "signFile"]
                                     ELSE UNCHANGED <<signWg, signPc>>
                                  /\ UNCHANGED catcher
                        ELSE UNCHANGED <<mirrors, catcher, signWg, signPc>>
  /\ UNCHANGED <<lpConf, lpPc, signRes, lpRet>>
  /\ UNCHANGED otherThanLink

\* return catcher.Resolve(): the value returned is computed
linkResolve ==
  /\ lpPc = "loop"
  /\ lpI > Len(lpConf.pkgs)
  /\ lpRet' = catcher
  /\ lpPc' = "resolved"
  /\ UNCHANGED <<lpConf, lpI, destExists, mirrors, catcher, signWg, signPc, signRes>>
  /\ UNCHANGED otherThanLink

\* mutant: linkPackages returns without waiting for the signing goroutines
SignWaitSkipped == TRUE

\* the deferred wg.Wait() returns
SignWaitDone == signWg = 0

linkReturn ==
  /\ lpPc = "resolved"
  /\ SignWaitDone
  /\ lpPc' = "returned"
  /\ UNCHANGED <<lpConf, lpI, destExists, mirrors, catcher, signWg, signPc, signRes, lpRet>>
  /\ UNCHANGED otherThanLink

\* the signing goroutine of package i: j.signFile(toSign, "", true)
signCall(i) ==
  /\ signPc[i] = "signFile"
  /\ \E ok \in BOOLEAN : signRes' = [signRes EXCEPT ![i] = IF ok THEN "nil" ELSE "err"]
  /\ signPc' = [signPc EXCEPT ![i] = "catcherAdd"]
  /\ UNCHANGED <<lpConf, lpPc, lpI, destExists, mirrors, catcher, signWg, lpRet>>
  /\ UNCHANGED otherThanLink

\* catcher.Add(errors.Wrapf(err, ...)): a nil error is not added
signCatch(i) ==
  /\ signPc[i] = "catcherAdd"
  /\ catcher' = IF signRes[i] = "err" THEN catcher \cup {LinkErr(i, "sign")} ELSE catcher
  /\ signPc' = [signPc EXCEPT ![i] = "wgDone"]
  /\ UNCHANGED <<lpConf, lpPc, lpI, destExists, mirrors, signWg, signRes, lpRet>>
  /\ UNCHANGED otherThanLink

signDone(i) ==
  /\ signPc[i] = "wgDone"
  /\ signWg' = signWg - 1
  /\ signPc' = [signPc EXCEPT ![i] = "done"]
  /\ UNCHANGED <<lpConf, lpPc, lpI, destExists, mirrors, catcher, signRes, lpRet>>
  /\ UNCHANGED otherThanLink

InitLinkWith(conf) ==
  /\ lpConf = conf
  /\ lpPc = "loop"
  /\ lpI = 1
  /\ destExists \in BOOLEAN
  /\ mirrors = {}
  /\ catcher = {}
  /\ signWg = 0
  /\ signPc = [i \in 1..MaxPkgs |-> "none"]
  /\ signRes = [i \in 1..MaxPkgs |-> "none"]
  /\ lpRet = {}

\* linkPackages is not running
IdleLink ==
  /\ InitLinkWith([Type |-> "RPM", pkgs |-> <<>>])
  /\ destExists = TRUE

LinkConfs ==
  UNION {[Type : {"RPM", "DEB"}, pkgs : [1..n -> PkgKinds]] : n \in 1..MaxPkgs}

\* ================================================= Bucket.SyncTo, SyncFrom

\* a path relative to the local directory: "<n>.rpm"
Rel(n) == n * 10 + 1

\* filepath.Join(prefix, path[len(local)+1:]): the key of a local file
JoinKey(prefix, rel) == prefix * 1000000 + rel

\* remote.Key[len(prefix):]: the path of a key below the local directory
StripPrefix(k, prefix) == k - prefix * 1000000

\* the directories SyncTo is given: up to MaxEntries entries, each a file, a
\* directory, or an entry the walk cannot read. The walk ends at the first
\* entry it cannot read, so what follows one is never looked at: it is taken
\* to be files.
EntryKinds == {"file", "dir", "err"}

Trees ==
  {t \in UNION {[1..n -> EntryKinds] : n \in 0..MaxEntries} :
     \A i \in 1..Len(t) : \A j \in (i + 1)..Len(t) : t[i] = "err" => t[j] = "file"}

Entry(kinds, i) == [kind |-> kinds[i], rel |-> Rel(i)]

\* "stable/", which holds MaxEntries keys, and "other/", which holds none
SyncPrefixes == {1, 3}

\* a unit in the queue
Unit(call, op, rel, key) ==
  [call |-> call, op |-> op, rel |-> rel, key |-> key, state |-> "pending",
   err |-> FALSE, yielded |-> FALSE, xfer |-> FALSE]

SyncError(kind, at) == [kind |-> kind, at |-> at]

\* mutant: the catcher of the previous call is used again
CatcherKept(prev) == prev

\* grip.NewCatcher(): the catcher a call starts with
NewCatcher(prev) == {}

\* queue.Put(job): it fails on a queue that is not started
QueuePutCanSucceed == bucket.queue = "started"

\* the position after item i: the loop goes on, or it has ended
AfterItem(i, its) == IF i >= Len(its) THEN "wait" ELSE "enqueue"

\* SyncTo: the walk function returned the error of queue.Put, and Walk stops
SyncToAfterPutError(i, its) == "wait"

\* mutant: SyncFrom's loop ends at a failed queue.Put
SyncFromStopsAfterPutError(i, its) == "wait"

\* SyncFrom: the error of queue.Put goes into the catcher, and the loop goes on
SyncFromAfterPutError(i, its) == AfterItem(i, its)

\* whether the store or the queue may fail once more, and the count after a
\* step in which it did or did not
CanFail == syncFaults < MaxFaults

Failed(now) == IF now THEN syncFaults + 1 ELSE syncFaults

\* the calls made on a handle are given the same prefix
SamePrefix(prefix) == syncCall = 0 \/ prefix = syncPrefix

CanStartSync ==
  /\ syncPc \in {"idle", "returned"}
  /\ syncCall < MaxCalls
  /\ bucket.open

SyncToCall ==
  /\ CanStartSync
  /\ \E prefix \in SyncPrefixes, failAt \in 0..1 :
       LET l == list(remote, prefix, failAt)
       IN  /\ l.failed => CanFail
           /\ SamePrefix(prefix)
           /\ syncPrefix' = prefix
           /\ syncListErr' = l.failed
           /\ syncFaults' = Failed(l.failed)
  /\ syncOp' = "SyncTo"
  /\ syncCall' = syncCall + 1
  /\ syncItems' = [i \in 1..Len(tree) |-> Entry(tree, i)]
  /\ syncI' = 1
  /\ syncCatcher' = NewCatcher(syncCatcher)
  /\ syncPc' = AfterItem(0, tree)
  /\ UNCHANGED <<tree, pool, syncHist>>
  /\ UNCHANGED bucketVars
  /\ UNCHANGED otherThanSync

SyncFromCall ==
  /\ CanStartSync
  /\ \E prefix \in SyncPrefixes, failAt \in 0..1 :
       LET l == list(remote, prefix, failAt)
       IN  /\ l.failed => CanFail
           /\ SamePrefix(prefix)
           /\ syncPrefix' = prefix
           /\ syncListErr' = l.failed
           /\ syncFaults' = Failed(l.failed)
           /\ syncItems' = l.keys
           /\ syncPc' = AfterItem(0, l.keys)
  /\ syncOp' = "SyncFrom"
  /\ syncCall' = syncCall + 1
  /\ syncI' = 1
  /\ syncCatcher' = NewCatcher(syncCatcher)
  /\ UNCHANGED <<tree, pool, syncHist>>
  /\ UNCHANGED bucketVars
  /\ UNCHANGED otherThanSync

\* one call of SyncTo's walk function
SyncToWalk ==
  /\ syncPc = "enqueue"
  /\ syncOp = "SyncTo"
  /\ LET e == syncItems[syncI]
     IN  IF e.kind = "err"
         THEN /\ syncCatcher' = syncCatcher \cup {SyncError("walk", syncI)}
              /\ syncPc' = "wait"
              /\ UNCHANGED <<pool, syncI, syncFaults>>
         ELSE IF e.kind = "dir"
         THEN /\ syncPc' = AfterItem(syncI, syncItems)
              /\ syncI' = syncI + 1
              /\ UNCHANGED <<pool, syncCatcher, syncFaults>>
         ELSE \E putOk \in BOOLEAN :
                /\ putOk => QueuePutCanSucceed
                /\ ~putOk => CanFail
                /\ syncFaults' = Failed(~putOk)
                /\ IF putOk
                   THEN /\ pool' = Append(pool, Unit(syncCall, "SyncTo", e.rel,
                                                    JoinKey(syncPrefix, e.rel)))
                        /\ syncPc' = AfterItem(syncI, syncItems)
                        /\ syncI' = syncI + 1
                        /\ UNCHANGED syncCatcher
                   ELSE /\ syncCatcher' = syncCatcher \cup {SyncError("put", syncI)}
                        /\ syncPc' = SyncToAfterPutError(syncI, syncItems)
                        /\ UNCHANGED <<pool, syncI>>
  /\ UNCHANGED <<tree, syncOp, syncCall, syncPrefix, syncItems, syncListErr, syncHist>>
  /\ UNCHANGED bucketVars
  /\ UNCHANGED otherThanSync

\* one iteration of SyncFrom's loop over the listing
SyncFromLoop ==
  /\ syncPc = "enqueue"
  /\ syncOp = "SyncFrom"
  /\ LET k == syncItems[syncI]
     IN  \E putOk \in BOOLEAN :
           /\ putOk => QueuePutCanSucceed
           /\ ~putOk => CanFail
           /\ syncFaults' = Failed(~putOk)
           /\ IF putOk
              THEN /\ pool' = Append(pool, Unit(syncCall, "SyncFrom",
                                               StripPrefix(k, syncPrefix), k))
                   /\ syncPc' = AfterItem(syncI, syncItems)
                   /\ UNCHANGED syncCatcher
              ELSE /\ syncCatcher' = syncCatcher \cup {SyncError("put", syncI)}
                   /\ syncPc' = SyncFromAfterPutError(syncI, syncItems)
                   /\ UNCHANGED pool
  /\ syncI' = syncI + 1
  /\ UNCHANGED <<tree, syncOp, syncCall, syncPrefix, syncItems, syncListErr, syncHist>>
  /\ UNCHANGED bucketVars
  /\ UNCHANGED otherThanSync

Pending == {u \in 1..Len(pool) : pool[u].state = "pending"}

\* a worker of the queue runs unit u: it performs the unit's Put or Get
\* through the handle's retrying primitive and records the outcome. The units
\* of one call name different keys, so their runs commute: they are taken in
\* the order of submission, interleaved with the submissions still to come.
WorkerRun(u) ==
  /\ u \in Pending
  /\ \A v \in Pending : u <= v
  /\ \E succAt \in {1, bucket.numRetries + 1} :
       LET x == pool[u]
           r == IF x.op = "SyncTo"
                THEN syncToJobRun(bucket, x.key, succAt)
                ELSE syncFromJobRun(bucket, x.key, succAt)
       IN  /\ r.err => CanFail
           /\ syncFaults' = Failed(r.err)
           /\ pool' = [pool EXCEPT ![u] =
                         [x EXCEPT !.state = "done", !.err = r.err,
                                   !.xfer = r.tr # <<>>]]
           /\ remote' = IF x.op = "SyncTo" /\ r.contacted
                        THEN StorePut(remote, x.key) ELSE remote
           /\ local' = IF x.op = "SyncFrom" /\ r.wrote
                       THEN local \cup {x.rel} ELSE local
  /\ UNCHANGED <<bucket, trace, ret, pc, items, next, batchFrom, count>>
  /\ UNCHANGED <<tree, syncOp, syncPc, syncCall, syncPrefix, syncItems, syncI,
                 syncCatcher, syncListErr, syncHist>>
  /\ UNCHANGED otherThanSync

\* mutant: the call does not wait for the queue
QueueWaitSkipped == TRUE

\* b.queue.Wait() returns
QueueWaitDone == Pending = {}

\* the units b.queue.Results() yields: the completed ones it has not yielded
Results == {u \in 1..Len(pool) : pool[u].state = "done" /\ ~pool[u].yielded}

\* mutant: the loop over the results adds nothing to the catcher
ResultErrorsDropped(yield) == {}

\* the loop over the results: a unit's error goes into the catcher
ResultErrors(yield) == {SyncError("unit", u) : u \in {v \in yield : pool[v].err}}

\* after the loop or the walk: Wait, the results, and the return
SyncFinish ==
  /\ syncPc = "wait"
  /\ QueueWaitDone
  /\ LET yield == Results
         errs  == syncCatcher \cup ResultErrors(yield)
     IN  /\ pool' = [u \in 1..Len(pool) |->
                       IF u \in yield THEN [pool[u] EXCEPT !.yielded = TRUE]
                       ELSE pool[u]]
         /\ syncCatcher' = errs
         /\ syncHist' = Append(syncHist,
              [call |-> syncCall, op |-> syncOp, prefix |-> syncPrefix,
               items |-> syncItems, stoppedAt |-> syncI, errs |-> errs,
               err |-> errs # {},
               pending |-> {u \in Pending : pool[u].call = syncCall},
               listErr |-> syncListErr, local |-> local])
  /\ syncPc' = "returned"
  /\ UNCHANGED <<tree, syncOp, syncCall, syncPrefix, syncItems, syncI, syncListErr,
                 syncFaults>>
  /\ UNCHANGED bucketVars
  /\ UNCHANGED otherThanSync

InitSyncWith(kinds) ==
  /\ tree = kinds
  /\ pool = <<>>
  /\ syncOp = "none"
  /\ syncPc = "idle"
  /\ syncCall = 0
  /\ syncPrefix = 0
  /\ syncItems = <<>>
  /\ syncI = 1
  /\ syncCatcher = {}
  /\ syncListErr = FALSE
  /\ syncFaults = 0
  /\ syncHist = <<>>

\* no sync has been called
IdleSync == InitSyncWith(<<>>)

\* ===================================================== handles and pools

Handles == 1..MaxHandles

\* the state the handles are in before a call
Before == [hs |-> hs, qid |-> qid, livePools |-> livePools]

\* mutant: the clone points to the queue of its source
ClonePoolShared(source, fresh) == source

\* the queue object a clone that is opened points to: the one
\* queue.NewLocalUnordered returns in the clone's Open
ClonePool(source, fresh) == fresh

\* handle h's permission is set (bucket.NewFilePermission = ...), which Run
\* does to the handle it is given and to no clone
HSetPermission(h) ==
  /\ hs[h] # Nil
  /\ hs[h].NewFilePermission = "private"
  /\ hs' = [hs EXCEPT ![h].NewFilePermission = "public-read"]
  /\ hLast' = [op |-> "SetPermission", h |-> h, j |-> 0, err |-> FALSE,
               before |-> Before]
  /\ UNCHANGED <<qid, livePools, nextQ>>
  /\ UNCHANGED otherThanHandles

HOpen(h) ==
  /\ hs[h] # Nil
  /\ nextQ <= MaxPools
  /\ \E startOk \in BOOLEAN :
       LET r == Open(hs[h], startOk)
       IN  /\ hs' = [hs EXCEPT ![h] = r.b]
           /\ hLast' = [op |-> "Open", h |-> h, j |-> 0, err |-> r.err,
                        before |-> Before]
           /\ IF hs[h].open
              THEN UNCHANGED <<qid, livePools, nextQ>>
              ELSE /\ qid' = [qid EXCEPT ![h] = nextQ]
                   /\ nextQ' = nextQ + 1
                   /\ livePools' = IF startOk THEN livePools \cup {nextQ} ELSE livePools
  /\ UNCHANGED otherThanHandles

HClose(h) ==
  /\ hs[h] # Nil
  /\ hs' = [hs EXCEPT ![h] = Close(hs[h])]
  /\ livePools' = IF hs[h].open THEN livePools \ {qid[h]} ELSE livePools
  /\ hLast' = [op |-> "Close", h |-> h, j |-> 0, err |-> FALSE, before |-> Before]
  /\ UNCHANGED <<qid, nextQ>>
  /\ UNCHANGED otherThanHandles

\* handle j := hs[h].Clone(), j being the first handle not in use
HClone(h, j) ==
  /\ hs[h] # Nil
  /\ hs[j] = Nil
  /\ \A k \in 1..(j - 1) : hs[k] # Nil
  /\ nextQ <= MaxPools
  /\ \E startOk \in BOOLEAN :
       LET r == Clone(hs[h], startOk)
           q == ClonePool(qid[h], nextQ)
       IN  /\ hLast' = [op |-> "Clone", h |-> h, j |-> j, err |-> r.err,
                        before |-> Before]
           /\ nextQ' = IF hs[h].open THEN nextQ + 1 ELSE nextQ
           /\ IF r.err
              THEN UNCHANGED <<hs, qid, livePools>>
              ELSE /\ hs' = [hs EXCEPT ![j] = r.b]
                   /\ qid' = [qid EXCEPT ![j] = IF hs[h].open THEN q ELSE 0]
                   /\ livePools' = IF hs[h].open THEN livePools \cup {q} ELSE livePools
  /\ UNCHANGED otherThanHandles

\* a SyncTo or SyncFrom through handle h: it assigns none of the handle's fields
HSync(h) ==
  /\ hs[h] # Nil
  /\ hs[h].open
  /\ hLast.op # "Sync"
  /\ hLast' = [op |-> "Sync", h |-> h, j |-> 0, err |-> FALSE, before |-> Before]
  /\ UNCHANGED <<hs, qid, livePools, nextQ>>
  /\ UNCHANGED otherThanHandles

InitHandlesWith(first) ==
  /\ hs = [h \in Handles |-> IF h = 1 THEN first ELSE Nil]
  /\ qid = [h \in Handles |-> 0]
  /\ livePools = {}
  /\ nextQ = 1
  /\ hLast = [op |-> "none", h |-> 0, j |-> 0, err |-> FALSE,
              before |-> [hs |-> [h \in Handles |-> IF h = 1 THEN first ELSE Nil],
                          qid |-> [h \in Handles |-> 0], livePools |-> {}]]

\* no handle is in use
IdleHandles == InitHandlesWith(Nil)

\* ======================================================= package location

\* a version: a development build has dev set, a release candidate has the
\* number of its "-rc<n>" tag in rc (0: no such tag)
Versions ==
  [major : {2, 3, 4}, minor : 0..MaxMinor, rc : 0..1, dev : BOOLEAN]

IsDevelopmentBuild(v) == v.dev

IsReleaseCandidate(v) == v.rc > 0

\* the series "<major>.<minor>"
Series(v) == ToString(v.major) \o "." \o ToString(v.minor)

\* mutant: release candidates go to the repository of their series
getPackageLocationNoTesting(v) ==
  IF IsDevelopmentBuild(v) THEN "development" ELSE Series(v)

\* Job.getPackageLocation
getPackageLocation(v) ==
  IF IsDevelopmentBuild(v) THEN "development"
  ELSE IF IsReleaseCandidate(v) THEN "testing"
  ELSE Series(v)

\* Job.injectNewPackages: the subtree handed to the builder's injectPackage
injectNewPackages(v) == getPackageLocation(v)

\* the goroutine's SyncFrom of the package location
LocSyncFrom ==
  /\ locPc = "SyncFrom"
  /\ syncFromLoc' = getPackageLocation(release)
  /\ locPc' = "inject"
  /\ UNCHANGED <<release, injectLoc>>
  /\ UNCHANGED otherThanLoc

LocInject ==
  /\ locPc = "inject"
  /\ injectLoc' = injectNewPackages(release)
  /\ locPc' = "done"
  /\ UNCHANGED <<release, syncFromLoc>>
  /\ UNCHANGED otherThanLoc

InitLocWith(v) ==
  /\ release = v
  /\ locPc = "SyncFrom"
  /\ syncFromLoc = "none"
  /\ injectLoc = "none"

IdleLoc == InitLocWith([major |-> 4, minor |-> 0, rc |-> 0, dev |-> FALSE])

\* ============================================================ retry backoff

RECURSIVE Pow(_, _)
Pow(x, n) == IF n = 0 THEN 1 ELSE x * Pow(x, n - 1)

\* getBackoff: a new Backoff, no attempt made
getBackoff ==
  [Min |-> BackoffMin, Max |-> BackoffMax, Factor |-> BackoffFactor,
   Jitter |-> TRUE, attempt |-> 0]

\* the values rand.Float64()*(hi - lo) + lo is taken at: both ends and the
\* middle of the range
Rand(lo, hi) == {lo, (lo + hi) \div 2, hi}

\* Backoff.ForAttempt: Min * Factor^attempt, a random point between Min and
\* that value when Jitter is set, kept between Min and Max
ForAttempt(bo, attempt) ==
  LET durf == bo.Min * Pow(bo.Factor, attempt)
      clamp(d) == IF d < bo.Min THEN bo.Min ELSE IF d > bo.Max THEN bo.Max ELSE d
  IN  {clamp(d) : d \in IF bo.Jitter THEN Rand(bo.Min, durf) ELSE {durf}}

\* mutant: the call goes on with the Backoff of the call before
BackoffKept(prev) == prev

\* backoff := getBackoff() at the head of Exists, Put and Get
NewBackoff(prev) == getBackoff

\* a retried call starts: its backoff and its loop variable
BackoffCall ==
  /\ boPc \in {"idle", "returned"}
  /\ boCalls < MaxCalls
  /\ boCalls' = boCalls + 1
  /\ backoff' = NewBackoff(backoff)
  /\ boI' = 1
  /\ slept' = <<>>
  /\ boPc' = IF 1 <= boRetries THEN "attempt" ELSE "returned"
  /\ UNCHANGED boRetries
  /\ UNCHANGED otherThanBackoff

\* one remote call of the loop: success returns, a failure before the last
\* attempt goes to sleep, a failure of the last attempt leaves the loop
BackoffAttempt ==
  /\ boPc = "attempt"
  /\ \E ok \in BOOLEAN :
       boPc' = IF ok THEN "returned"
               ELSE IF boI < boRetries THEN "sleep"
               ELSE "returned"
  /\ UNCHANGED <<backoff, boRetries, boI, boCalls, slept>>
  /\ UNCHANGED otherThanBackoff

\* time.Sleep(backoff.Duration()): Duration is ForAttempt of the counter,
\* which it then increments
BackoffSleep ==
  /\ boPc = "sleep"
  /\ \E d \in ForAttempt(backoff, backoff.attempt) :
       slept' = Append(slept, d)
  /\ backoff' = [backoff EXCEPT !.attempt = @ + 1]
  /\ boI' = boI + 1
  /\ boPc' = "attempt"
  /\ UNCHANGED <<boRetries, boCalls>>
  /\ UNCHANGED otherThanBackoff

InitBackoffWith(retries) ==
  /\ backoff = getBackoff
  /\ boRetries = retries
  /\ boPc = "idle"
  /\ boI = 0
  /\ boCalls = 0
  /\ slept = <<>>

IdleBackoff == InitBackoffWith(1)

\* ============================================================== Job.signFile

\* MongoDBVersion.StableReleaseSeries: the series of a stable (even) minor
\* version, the next series of a development one
StableReleaseSeries(v) ==
  IF v.minor % 2 = 0 THEN Series(v)
  ELSE ToString(v.major) \o "." \o ToString(v.minor + 1)

\* mutant: the legacy pair is taken for every DEB job
selectKeyAnyDeb(type, v, env) ==
  IF type = "DEB"
  THEN [keyName |-> "richard", token |-> env.NOTARY_TOKEN_DEB_LEGACY]
  ELSE [keyName |-> "server-" \o StableReleaseSeries(v), token |-> env.NOTARY_TOKEN]

\* the choice of keyName and token at the head of signFile
selectKey(type, v, env) ==
  IF type = "DEB" /\ (Series(v) = "3.0" \/ Series(v) = "2.6")
  THEN [keyName |-> "richard", token |-> env.NOTARY_TOKEN_DEB_LEGACY]
  ELSE [keyName |-> "server-" \o StableReleaseSeries(v), token |-> env.NOTARY_TOKEN]

signFileSelect ==
  /\ sfPc = "select"
  /\ LET k == selectKey(sfConf.Type, sfConf.release, sfConf.env)
     IN  /\ keyName' = k.keyName
         /\ token' = k.token
  /\ sfPc' = "check"
  /\ UNCHANGED <<sfConf, sfRemoved, sfRan, sfErr>>
  /\ UNCHANGED otherThanSignFile

\* if token == "" { return errors.New(...) }
signFileCheck ==
  /\ sfPc = "check"
  /\ IF token = ""
     THEN sfErr' = TRUE /\ sfPc' = "returned"
     ELSE sfErr' = FALSE /\ sfPc' = "sign"
  /\ UNCHANGED <<sfConf, keyName, token, sfRemoved, sfRan>>
  /\ UNCHANGED otherThanSignFile

\* the rest of signFile: without overwrite the signed artifact is removed
\* first; the notary client runs and its failure is returned
signFileRun ==
  /\ sfPc = "sign"
  /\ sfRemoved' = ~sfConf.overwrite
  /\ sfRan' = TRUE
  /\ \E ok \in BOOLEAN : sfErr' = ~ok
  /\ sfPc' = "returned"
  /\ UNCHANGED <<sfConf, keyName, token>>
  /\ UNCHANGED otherThanSignFile

\* the values of NOTARY_TOKEN_DEB_LEGACY and NOTARY_TOKEN
Envs ==
  [NOTARY_TOKEN_DEB_LEGACY : {"", "legacy-token"}, NOTARY_TOKEN : {"", "token"}]

SignConfs ==
  [Type : {"RPM", "DEB", "OTHER"}, release : Versions, env : Envs,
   overwrite : BOOLEAN]

InitSignFileWith(conf) ==
  /\ sfConf = conf
  /\ sfPc = "select"
  /\ keyName = ""
  /\ token = ""
  /\ sfRemoved = FALSE
  /\ sfRan = FALSE
  /\ sfErr = FALSE

IdleSignFile ==
  InitSignFileWith([Type |-> "RPM",
                    release |-> [major |-> 4, minor |-> 0, rc |-> 0, dev |-> FALSE],
                    env |-> [NOTARY_TOKEN_DEB_LEGACY |-> "", NOTARY_TOKEN |-> ""],
                    overwrite |-> TRUE])

\* ================================================== configuration setters

\* mutant: SetNumJobs assigns whether or not the handle is open
SetNumJobsWhileOpen(b, n) == [b |-> [b EXCEPT !.numJobs = n], err |-> FALSE]

\* Bucket.SetNumJobs: (the handle afterwards, whether the error is non-nil)
SetNumJobs(b, n) ==
  IF b.open THEN [b |-> b, err |-> TRUE]
  ELSE [b |-> [b EXCEPT !.numJobs = n], err |-> FALSE]

\* Bucket.SetNumRetries
SetNumRetries(b, n) ==
  IF n < 0 THEN [b |-> b, err |-> TRUE]
  ELSE [b |-> [b EXCEPT !.numRetries = n], err |-> FALSE]

SetterBefore == [sb |-> sb, sbPool |-> sbPool]

SetNumJobsCall ==
  /\ \E n \in (-1)..MaxJobs :
       LET r == SetNumJobs(sb, n)
       IN  /\ sb' = r.b
           /\ sbLast' = [op |-> "SetNumJobs", n |-> n, err |-> r.err,
                         before |-> SetterBefore]
  /\ UNCHANGED sbPool
  /\ UNCHANGED otherThanSetters

SetNumRetriesCall ==
  /\ \E n \in (-1)..MaxRetries :
       LET r == SetNumRetries(sb, n)
       IN  /\ sb' = r.b
           /\ sbLast' = [op |-> "SetNumRetries", n |-> n, err |-> r.err,
                         before |-> SetterBefore]
  /\ UNCHANGED sbPool
  /\ UNCHANGED otherThanSetters

\* Open: a handle that is not open gets a queue of b.numJobs workers
SetterOpen ==
  /\ \E startOk \in BOOLEAN :
       LET r == Open(sb, startOk)
       IN  /\ sb' = r.b
           /\ sbLast' = [op |-> "Open", n |-> 0, err |-> r.err,
                         before |-> SetterBefore]
  /\ sbPool' = IF sb.open THEN sbPool ELSE sb.numJobs
  /\ UNCHANGED otherThanSetters

SetterClose ==
  /\ sb' = Close(sb)
  /\ sbLast' = [op |-> "Close", n |-> 0, err |-> FALSE, before |-> SetterBefore]
  /\ UNCHANGED sbPool
  /\ UNCHANGED otherThanSetters

InitSettersWith(b) ==
  /\ sb = b
  /\ sbPool = 0
  /\ sbLast = [op |-> "none", n |-> 0, err |-> FALSE,
               before |-> [sb |-> b, sbPool |-> 0]]

IdleSetters == InitSettersWith(Nil)

\* ============================================================== Bucket.list

\* no marker gets this answer
NoMarker == 0 - 1

\* the store's answer to List(prefix, "", marker, max): an error at the marker
\* failAt, a truncated page without keys at the marker emptyAt, and otherwise
\* the next keys, at most cap of them and at most max
ListAnswer(st, prefix, marker, max) ==
  IF marker = st.failAt THEN [err |-> TRUE, Contents |-> <<>>, IsTruncated |-> FALSE]
  ELSE IF marker = st.emptyAt
  THEN [err |-> FALSE, Contents |-> <<>>, IsTruncated |-> TRUE]
  ELSE LET r == RemoteList(st.keys, prefix, marker, Min(st.cap, max))
       IN  [err |-> FALSE, Contents |-> r.Contents, IsTruncated |-> r.IsTruncated]

\* after a page: if !results.IsTruncated { break }
listAfterPage(results) == IF ~results.IsTruncated THEN "closed" ELSE "loop"

\* one iteration of the goroutine's loop; leaving the loop closes the output
listIteration ==
  /\ lsPc = "loop"
  /\ LET results == ListAnswer(lsStore, lsPrefix, lsLastKey, PageSize)
         n       == Len(results.Contents)
     IN  /\ lsReq' = [marker |-> lsLastKey, max |-> PageSize]
         /\ IF results.err
            THEN /\ lsPc' = "closed"
                 /\ UNCHANGED <<lsLastKey, output>>
            ELSE /\ output' = output \o results.Contents
                 /\ lsLastKey' = IF n > 0 THEN results.Contents[n] ELSE lsLastKey
                 /\ lsPc' = listAfterPage(results)
  /\ UNCHANGED <<lsStore, lsPrefix>>
  /\ UNCHANGED otherThanList

\* the markers at which a store misbehaves: none, the empty one, the first
\* key and the last key of the first full page
BadMarkers == {NoMarker, NoKey, Key(1, 1, 1), Key(1, PageSize, 1)}

\* small stores that hand out one key or a full page at a time, and a store
\* of MaxBatches full pages and one key more
ListStores ==
  {st \in [keys : {InitStore(n) : n \in {0, 1, 2, MaxBatches * PageSize + 1}},
           failAt : BadMarkers, emptyAt : BadMarkers, cap : {1, PageSize}] :
     st.cap = 1 => Len(st.keys) <= 5}

InitListWith(st, prefix) ==
  /\ lsStore = st
  /\ lsPrefix = prefix
  /\ lsLastKey = NoKey
  /\ output = <<>>
  /\ lsReq = [marker |-> NoKey, max |-> 0]
  /\ lsPc = "loop"

IdleList ==
  InitListWith([keys |-> <<>>, failAt |-> NoMarker, emptyAt |-> NoMarker, cap |-> 1], 0)

\* ============================================================ doCollection

\* the values of an int, and the value an int holds after an operation whose
\* mathematical result is x
MinInt == 0 - Pow(2, IntBits - 1)

MaxInt == Pow(2, IntBits - 1) - 1

WrapInt(x) == ((x - MinInt) % Pow(2, IntBits)) + MinInt

\* op() is invoked; its error is returned at once
collectOp ==
  /\ dcPc = "op"
  /\ dcOps' = dcOps + 1
  /\ \E ok \in BOOLEAN :
       IF ok
       THEN dcPc' = "dec" /\ UNCHANGED dcRet
       ELSE dcPc' = "returned" /\ dcRet' = "err"
  /\ UNCHANGED <<dcArg, dcCount, dcSleeps>>
  /\ UNCHANGED otherThanCollect

\* `if count == 0 { break }`
collectDone(c) == c = 0

\* count--, and the test that ends the loop; after the loop, return nil
collectDecrement ==
  /\ dcPc = "dec"
  /\ dcCount' = WrapInt(dcCount - 1)
  /\ IF collectDone(dcCount')
     THEN dcPc' = "returned" /\ dcRet' = "nil"
     ELSE dcPc' = "sleep" /\ UNCHANGED dcRet
  /\ UNCHANGED <<dcArg, dcOps, dcSleeps>>
  /\ UNCHANGED otherThanCollect

\* time.Sleep(interval)
collectSleep ==
  /\ dcPc = "sleep"
  /\ dcSleeps' = dcSleeps + 1
  /\ dcPc' = "op"
  /\ UNCHANGED <<dcArg, dcCount, dcOps, dcRet>>
  /\ UNCHANGED otherThanCollect

InitCollectWith(n) ==
  /\ dcArg = n
  /\ dcCount = n
  /\ dcOps = 0
  /\ dcSleeps = 0
  /\ dcRet = "none"
  /\ dcPc = "op"

IdleCollect == InitCollectWith(1)

\* ================================================================== systems

vars == <<bucketVars, runVars, linkVars, syncVars, handleVars, locVars, backoffVars, signFileVars, setterVars, listVars, collectVars>>

\* ---- one operation on one handle

NextBucket ==
  \/ ExistsCall
  \/ PutCall
  \/ GetCall
  \/ DeleteCall
  \/ DeleteManyCall
  \/ DeletePrefixCall
  \/ DeleteMatchingCall
  \/ deleteGroup

\* the retry budgets SetNumRetries accepts, on a small store
InitRetry ==
  /\ \E isDry \in BOOLEAN, retries \in 0..MaxRetries : InitBucket(isDry, retries, 2)
  /\ IdleRun
  /\ IdleLink
  /\ IdleSync
  /\ IdleHandles
  /\ IdleLoc
  /\ IdleBackoff
  /\ IdleSignFile
  /\ IdleSetters
  /\ IdleList
  /\ IdleCollect

SpecRetry == InitRetry /\ [][NextBucket]_vars

\* a small store, and one of MaxBatches full batches and one key more
DeleteSizes == {2, MaxBatches * BatchSize + 1}

InitDelete ==
  /\ \E isDry \in BOOLEAN, n \in DeleteSizes : InitBucket(isDry, 1, n)
  /\ IdleRun
  /\ IdleLink
  /\ IdleSync
  /\ IdleHandles
  /\ IdleLoc
  /\ IdleBackoff
  /\ IdleSignFile
  /\ IdleSetters
  /\ IdleList
  /\ IdleCollect

SpecDelete == InitDelete /\ [][NextBucket]_vars

\* ---- one execution of Job.Run

InitRun ==
  /\ \E conf \in JobConfs : InitRunWith(conf)
  /\ InitBucket(FALSE, 1, 2)
  /\ IdleLink
  /\ IdleSync
  /\ IdleHandles
  /\ IdleLoc
  /\ IdleBackoff
  /\ IdleSignFile
  /\ IdleSetters
  /\ IdleList
  /\ IdleCollect

NextRun ==
  \/ RunOpen
  \/ RunDryClone
  \/ RunDryOpen
  \/ RunPerm
  \/ RunLoop
  \/ RunWait
  \/ RunReturn
  \/ \E t \in Threads : addErrorLock(t)
  \/ \E t \in Threads : addErrorAppend(t)
  \/ \E r \in 1..MaxRepos : GoMkdir(r)
  \/ \E r \in 1..MaxRepos : GoSyncFrom(r)
  \/ \E r \in 1..MaxRepos : GoInject(r)
  \/ \E r \in 1..MaxRepos : GoRebuild(r)
  \/ \E r \in 1..MaxRepos : GoUpload(r)
  \/ \E r \in 1..MaxRepos : GoDone(r)
  \/ \E r \in 1..MaxRepos : GoClose(r)
  \/ \E r \in 1..MaxRepos : GoExit(r)

SpecRun == InitRun /\ [][NextRun]_vars

\* ---- one call of Job.linkPackages

InitLink ==
  /\ \E conf \in LinkConfs : InitLinkWith(conf)
  /\ InitBucket(FALSE, 1, 2)
  /\ IdleRun
  /\ IdleSync
  /\ IdleHandles
  /\ IdleLoc
  /\ IdleBackoff
  /\ IdleSignFile
  /\ IdleSetters
  /\ IdleList
  /\ IdleCollect

NextLink ==
  \/ linkPackage
  \/ linkResolve
  \/ linkReturn
  \/ \E i \in 1..MaxPkgs : signCall(i)
  \/ \E i \in 1..MaxPkgs : signCatch(i)
  \/ \E i \in 1..MaxPkgs : signDone(i)

SpecLink == InitLink /\ [][NextLink]_vars

\* ---- SyncTo and SyncFrom calls on one open handle

InitSync ==
  /\ InitBucket(FALSE, 1, MaxEntries)
  /\ \E kinds \in Trees : InitSyncWith(kinds)
  /\ IdleRun
  /\ IdleLink
  /\ IdleHandles
  /\ IdleLoc
  /\ IdleBackoff
  /\ IdleSignFile
  /\ IdleSetters
  /\ IdleList
  /\ IdleCollect

NextSync ==
  \/ SyncToCall
  \/ SyncFromCall
  \/ SyncToWalk
  \/ SyncFromLoop
  \/ \E u \in 1..(MaxCalls * MaxEntries) : WorkerRun(u)
  \/ SyncFinish

SpecSync == InitSync /\ [][NextSync]_vars

\* ---- Open, Close and Clone on a handle and its clones

InitHandles ==
  /\ InitHandlesWith(GetBucketWithProfile)
  /\ InitBucket(FALSE, 1, 2)
  /\ IdleRun
  /\ IdleLink
  /\ IdleSync
  /\ IdleLoc
  /\ IdleBackoff
  /\ IdleSignFile
  /\ IdleSetters
  /\ IdleList
  /\ IdleCollect

NextHandles ==
  \/ HSetPermission(1)
  \/ \E h \in Handles : HOpen(h)
  \/ \E h \in Handles : HClose(h)
  \/ \E h \in Handles, j \in Handles : HClone(h, j)
  \/ \E h \in Handles : HSync(h)

SpecHandles == InitHandles /\ [][NextHandles]_vars

\* ---- the package location of one job

InitLoc ==
  /\ \E v \in Versions : InitLocWith(v)
  /\ InitBucket(FALSE, 1, 2)
  /\ IdleRun
  /\ IdleLink
  /\ IdleSync
  /\ IdleHandles
  /\ IdleBackoff
  /\ IdleSignFile
  /\ IdleSetters
  /\ IdleList
  /\ IdleCollect

NextLoc ==
  \/ LocSyncFrom
  \/ LocInject

SpecLoc == InitLoc /\ [][NextLoc]_vars

\* ---- the delays of retried calls

InitBackoff ==
  /\ \E retries \in 0..(MaxSleeps + 1) : InitBackoffWith(retries)
  /\ InitBucket(FALSE, 1, 2)
  /\ IdleRun
  /\ IdleLink
  /\ IdleSync
  /\ IdleHandles
  /\ IdleLoc
  /\ IdleSignFile
  /\ IdleSetters
  /\ IdleList
  /\ IdleCollect

NextBackoff ==
  \/ BackoffCall
  \/ BackoffAttempt
  \/ BackoffSleep

SpecBackoff == InitBackoff /\ [][NextBackoff]_vars

\* ---- one call of Job.signFile

InitSignFile ==
  /\ \E conf \in SignConfs : InitSignFileWith(conf)
  /\ InitBucket(FALSE, 1, 2)
  /\ IdleRun
  /\ IdleLink
  /\ IdleSync
  /\ IdleHandles
  /\ IdleLoc
  /\ IdleBackoff
  /\ IdleSetters
  /\ IdleList
  /\ IdleCollect

NextSignFile ==
  \/ signFileSelect
  \/ signFileCheck
  \/ signFileRun

SpecSignFile == InitSignFile /\ [][NextSignFile]_vars

\* ---- the setters, Open and Close on one handle

InitSetters ==
  /\ InitSettersWith(GetBucketWithProfile)
  /\ InitBucket(FALSE, 1, 2)
  /\ IdleRun
  /\ IdleLink
  /\ IdleSync
  /\ IdleHandles
  /\ IdleLoc
  /\ IdleBackoff
  /\ IdleSignFile
  /\ IdleList
  /\ IdleCollect

NextSetters ==
  \/ SetNumJobsCall
  \/ SetNumRetriesCall
  \/ SetterOpen
  \/ SetterClose

SpecSetters == InitSetters /\ [][NextSetters]_vars

\* ---- one listing; the goroutine runs as long as it can

InitList ==
  /\ \E st \in ListStores : InitListWith(st, 1)
  /\ InitBucket(FALSE, 1, 2)
  /\ IdleRun
  /\ IdleLink
  /\ IdleSync
  /\ IdleHandles
  /\ IdleLoc
  /\ IdleBackoff
  /\ IdleSignFile
  /\ IdleSetters
  /\ IdleCollect

NextList == listIteration

SpecList == InitList /\ [][NextList]_vars /\ WF_vars(listIteration)

\* ---- one call of doCollection, with every count an int can hold

InitCollect ==
  /\ \E n \in MinInt..MaxInt : InitCollectWith(n)
  /\ InitBucket(FALSE, 1, 2)
  /\ IdleRun
  /\ IdleLink
  /\ IdleSync
  /\ IdleHandles
  /\ IdleLoc
  /\ IdleBackoff
  /\ IdleSignFile
  /\ IdleSetters
  /\ IdleList

NextCollect ==
  \/ collectOp
  \/ collectDecrement
  \/ collectSleep

SpecCollect == InitCollect /\ [][NextCollect]_vars

\* =================================================================== claims

AllSteps == <<"mkdir", "SyncFrom", "inject", "rebuild", "SyncTo">>

IsPrefix(s, t) == Len(s) <= Len(t) /\ SubSeq(t, 1, Len(s)) = s

\* C1: in a run with DryRun set no per-repository handle makes a mutating
\* remote call (its SyncTo issues no remote Put), while its SyncFrom still
\* lists the remote prefix.
C1_DryRunJobMutatesNothing ==
  jobConf.DryRun =>
    \A r \in 1..MaxRepos :
      /\ mutCalls[r] = 0
      /\ "SyncFrom" \in Range(steps[r]) => readCalls[r] >= 1

\* C2: on a dry-run handle Put, Delete, DeleteMany, DeletePrefix and
\* DeleteMatching make no remote Put, Del or DelMulti call, and Exists and Get
\* make the calls and return the results they do on a non-dry-run handle.
C2_DryRunHandleInert ==
  bucket.dryRun =>
    LET live == [bucket EXCEPT !.dryRun = FALSE]
    IN  /\ ret.op \in {"Put", "Delete", "DeleteMany", "DeletePrefix", "DeleteMatching"}
             => Mutating(trace) = <<>>
        /\ ret.op = "Exists" =>
             LET r == ExistsOp(live, remote, ret.args[1], ret.succAt)
             IN  trace = r.tr /\ ret.err = r.err /\ ret.val = r.val
        /\ ret.op = "Get" =>
             LET r == GetOp(live, ret.args[1], ret.succAt, ret.args[2],
                            ret.args[3], ret.args[4])
             IN  trace = r.tr /\ ret.err = r.err /\ ret.wrote = r.wrote

CeilDiv(a, b) == (a + b - 1) \div b

\* C3: a multi-key delete on a non-dry-run handle that is fed K > 1000 keys,
\* every bulk call succeeding, returns having issued ceil(K/1000) DelMulti
\* calls of at most 1000 keys each, every key fed being in exactly one call.
C3_BulkDeleteBatches ==
  ( /\ pc = "returned"
    /\ ret.op \in {"DeleteMany", "DeletePrefix", "DeleteMatching"}
    /\ ~bucket.dryRun
    /\ Len(items) > BatchSize
    /\ ~ret.err )
  => LET calls == Calls(trace, "DelMulti")
     IN  /\ Len(calls) = CeilDiv(Len(items), BatchSize)
         /\ \A c \in 1..Len(calls) : Len(calls[c].keys) <= BatchSize
         /\ \A i \in 1..Len(items) :
              Cardinality({c \in 1..Len(calls) : items[i] \in Range(calls[c].keys)}) = 1

\* whether the call went into its retry loop
Retried ==
  /\ pc = "returned"
  /\ \/ ret.op \in {"Exists", "Get"}
     \/ ret.op = "Put" /\ ret.args[2] /\ ret.args[3] /\ ~bucket.dryRun

\* C4: with a retry budget N >= 1, an Exists, Put or Get whose remote call
\* first succeeds on attempt s <= N (so also s = N) has made exactly s attempts
\* and the remote part has succeeded; one whose remote call fails N times
\* returns an error after exactly N attempts; and the call sleeps only between
\* two attempts.
C4_RetryBound ==
  (Retried /\ bucket.numRetries >= 1) =>
    LET N        == bucket.numRetries
        attempts == Len(Calls(trace, ret.op))
        sleeps   == Len(Calls(trace, "sleep"))
    IN  /\ ret.succAt <= N =>
             /\ attempts = ret.succAt
             /\ ret.contacted
             /\ ret.op \in {"Exists", "Put"} => ~ret.err
             /\ ret.op = "Get" =>
                  (ret.err <=> ((~ret.args[2] /\ ~ret.args[3]) \/ ~ret.args[4]))
        /\ ret.succAt > N => attempts = N /\ ret.err
        /\ sleeps = attempts - 1
        /\ Len(trace) = attempts + sleeps
        /\ \A i \in 1..Len(trace) : trace[i].ev = "sleep" <=> i % 2 = 0

\* C4 witness: a Put with a budget of at least 2 that succeeded on its last
\* attempt, and slept between the attempts
C4_Witness ==
  /\ Retried
  /\ ret.op = "Put"
  /\ bucket.numRetries >= 2
  /\ ret.succAt = bucket.numRetries
  /\ ~ret.err
  /\ Len(Calls(trace, "Put")) = bucket.numRetries
  /\ Len(Calls(trace, "sleep")) = bucket.numRetries - 1

\* the repositories a step of which failed
Failing == {e.repo : e \in added} \ {0}

\* C5: when Run returns after its fan-out, every repository none of whose
\* steps failed has been taken through all its steps, SyncTo included, and the
\* error list holds exactly one entry for each repository with a failed step
\* and none for the others.
C5_PartialFailureIsolated ==
  (tpc[0] = "done" /\ loopI > jobConf.Repos) =>
    \A r \in 1..jobConf.Repos :
      LET entries == {i \in 1..Len(Errors) : Errors[i].repo = r}
      IN  /\ r \notin Failing =>
               /\ steps[r] = AllSteps
               /\ tpc[r] \in {"close", "finished"}
               /\ entries = {}
          /\ r \in Failing => Cardinality(entries) = 1

\* C5 witness: Run has returned, repository 1 failed and repository 2 was
\* synced to the remote
C5_Witness ==
  /\ tpc[0] = "done"
  /\ jobConf.Repos >= 2
  /\ Failing = {1}
  /\ steps[2] = AllSteps
  /\ Len(Errors) = 1

\* C6: the completion flag is set only after the goroutines have joined, and
\* it is true when Run returns, whatever the outcome.
C6_CompleteWhenRunReturns ==
  /\ IsComplete => (wg = 0 /\ loopI > jobConf.Repos)
  /\ tpc[0] = "done" => IsComplete

AbortErrs == {RunErr("open"), RunErr("dryClone"), RunErr("dryOpen")}

\* C7: if opening the top-level handle, or deriving the dry-run clone, fails,
\* that is the only error the job records and nothing downstream runs: no
\* clone, no goroutine, no step of any repository (and no dry-run derivation
\* after a failed open).
C7_OpenFailureAborts ==
  (added \cap AbortErrs # {}) =>
    /\ Cardinality(added) = 1
    /\ IsPrefix(Errors, <<CHOOSE e \in added : TRUE>>)
    /\ tpc[0] = "done" => Len(Errors) = 1
    /\ loopI = 1
    /\ wg = 0
    /\ \A r \in 1..MaxRepos :
         /\ tpc[r] = "idle"
         /\ steps[r] = <<>>
         /\ clones[r] = Nil
         /\ mutCalls[r] = 0
         /\ readCalls[r] = 0
    /\ RunErr("open") \in added => dry = Nil

\* C7 witness: Run has returned after failing to derive the dry-run clone
C7_Witness ==
  /\ tpc[0] = "done"
  /\ Errors = <<RunErr("dryClone")>>

\* the errors whose AddError call has returned
Recorded == {e \in added : \A t \in Threads : pend[t].err # e}

\* C8: the error list only grows by appending, and it holds every error whose
\* AddError call has returned, once each, whatever the interleaving.
C8_ErrorsAppendOnly ==
  /\ [](Range(Errors) = Recorded /\ Len(Errors) = Cardinality(Recorded))
  /\ [][IsPrefix(Errors, Errors')]_vars

\* C8 witness: Run has returned and two goroutines have each added an error
C8_Witness ==
  /\ tpc[0] = "done"
  /\ Len(Errors) = 2
  /\ {Errors[1].repo, Errors[2].repo} = {1, 2}

\* C9: when linkPackages returns, every signing failure is part of the error it
\* returns, and every signing that was started has run to its end.
C9_SigningFailuresReturned ==
  lpPc = "returned" =>
    \A i \in 1..MaxPkgs :
      /\ signRes[i] = "err" => LinkErr(i, "sign") \in lpRet
      /\ signPc[i] \in {"none", "done"}

\* C10: when linkPackages returns, no signing goroutine it started is still
\* running.
C10_SigningJoined ==
  lpPc = "returned" => \A i \in 1..MaxPkgs : signPc[i] \in {"none", "done"}

\* C10 witness: linkPackages has returned for an RPM target after starting two
\* signing goroutines
C10_Witness ==
  /\ lpPc = "returned"
  /\ lpConf.Type = "RPM"
  /\ Cardinality({i \in 1..MaxPkgs : signPc[i] = "done"}) >= 2

\* the units call c put into the queue
UnitsOf(c) == {u \in 1..Len(pool) : pool[u].call = c}

\* the returned calls of an operation
Returned(op) == {k \in 1..Len(syncHist) : syncHist[k].op = op}

\* the files among the first n entries of a walk
FilesIn(its, n) == {i \in 1..Min(n, Len(its)) : its[i].kind = "file"}

\* the units of call h that upload entry i of its walk
UploadsOf(h, i) ==
  {u \in UnitsOf(h.call) :
     /\ pool[u].rel = h.items[i].rel
     /\ pool[u].key = JoinKey(h.prefix, h.items[i].rel)}

\* a returned call's error is non-nil exactly when its walk or an enqueue
\* failed or one of its units failed, and holds every failed unit
ErrorsAggregated(h, failed) ==
  /\ h.err <=> (failed \/ \E u \in UnitsOf(h.call) : pool[u].err)
  /\ \A u \in UnitsOf(h.call) : pool[u].err => SyncError("unit", u) \in h.errs

\* C11 as stated: a returned SyncTo has put one unit into the queue for every
\* file of the tree, all its units have been processed, and its error is
\* non-nil exactly when the walk or an enqueue failed or a unit failed.
C11_SyncToEveryFile ==
  \A k \in Returned("SyncTo") :
    LET h == syncHist[k]
    IN  /\ \A i \in FilesIn(h.items, Len(h.items)) : Cardinality(UploadsOf(h, i)) = 1
        /\ Cardinality(UnitsOf(h.call)) = Cardinality(FilesIn(h.items, Len(h.items)))
        /\ h.pending = {}
        /\ ErrorsAggregated(h, h.stoppedAt <= Len(h.items))

\* C11 amended: a returned SyncTo has put one unit into the queue for every
\* file the walk reached before it stopped and none for a later one; the walk
\* stops only at an entry it cannot read or at a file whose unit could not be
\* enqueued; all its units have been processed; its error is non-nil exactly
\* when the walk stopped early or a unit failed, and holds every failed unit.
C11_SyncToFilesReached ==
  \A k \in Returned("SyncTo") :
    LET h == syncHist[k]
        reached == FilesIn(h.items, h.stoppedAt - 1)
    IN  /\ \A i \in reached : Cardinality(UploadsOf(h, i)) = 1
        /\ Cardinality(UnitsOf(h.call)) = Cardinality(reached)
        /\ h.stoppedAt <= Len(h.items) =>
             /\ h.items[h.stoppedAt].kind \in {"err", "file"}
             /\ h.errs \cap {SyncError("walk", h.stoppedAt),
                             SyncError("put", h.stoppedAt)} # {}
        /\ h.pending = {}
        /\ ErrorsAggregated(h, h.stoppedAt <= Len(h.items))

\* C11 witness: a SyncTo of two files has returned, one unit failed and the
\* other did not
C11_Witness ==
  \E k \in Returned("SyncTo") :
    LET h == syncHist[k]
    IN  /\ Cardinality(UnitsOf(h.call)) = 2
        /\ h.stoppedAt > Len(h.items)
        /\ Cardinality({u \in UnitsOf(h.call) : pool[u].err}) = 1
        /\ h.err

\* whether the call got to item n of what it iterates over
Reached(h, n) == n <= Len(h.items) /\ n <= h.stoppedAt

PutFailed(h, i) == SyncError("put", i) \in h.errs

\* the units of call h that download item i of its listing to the local
\* path that is the key without the prefix
DownloadsOf(h, i) ==
  {u \in UnitsOf(h.call) :
     /\ pool[u].key = h.items[i]
     /\ pool[u].rel = h.items[i] % 1000000
     /\ JoinKey(h.prefix, pool[u].rel) = h.items[i]}

\* a returned SyncFrom has tried to enqueue one download unit for every listed
\* key, has waited for them, and has aggregated the errors
SyncFromEveryKey(h) ==
  /\ \A i \in 1..Len(h.items) :
       /\ Reached(h, i)
       /\ Cardinality(DownloadsOf(h, i)) = IF PutFailed(h, i) THEN 0 ELSE 1
  /\ Cardinality(UnitsOf(h.call)) =
       Cardinality({i \in 1..Len(h.items) : ~PutFailed(h, i)})
  /\ h.pending = {}
  /\ ErrorsAggregated(h, \E i \in 1..Len(h.items) : PutFailed(h, i))

\* C12 as stated: SyncFrom enqueues one download unit per listed key, waits,
\* and aggregates errors as SyncTo does; after a failed enqueue the next item
\* is reached in a SyncFrom exactly if it is in a SyncTo.
C12_SyncFromLikeSyncTo ==
  \A k \in Returned("SyncFrom") :
    /\ SyncFromEveryKey(syncHist[k])
    /\ \A m \in Returned("SyncTo") : \A i \in 1..MaxEntries :
         ( /\ PutFailed(syncHist[k], i)
           /\ PutFailed(syncHist[m], i)
           /\ i < Len(syncHist[k].items)
           /\ i < Len(syncHist[m].items) )
         => (Reached(syncHist[k], i + 1) <=> Reached(syncHist[m], i + 1))

\* C12 amended: SyncFrom tries to enqueue one download unit per listed key,
\* also after an enqueue has failed, waits for the units and returns a non-nil
\* error exactly when an enqueue or a unit failed; SyncTo's walk stops at the
\* first failed enqueue.
C12_SyncFromGoesOn ==
  /\ \A k \in Returned("SyncFrom") : SyncFromEveryKey(syncHist[k])
  /\ \A m \in Returned("SyncTo") : \A i \in 1..Len(syncHist[m].items) :
       PutFailed(syncHist[m], i) => syncHist[m].stoppedAt = i

\* C12 witness: a SyncFrom over two keys has returned; enqueueing the first
\* unit failed and the second unit was enqueued and processed
C12_Witness ==
  \E k \in Returned("SyncFrom") :
    LET h == syncHist[k]
    IN  /\ Len(h.items) = 2
        /\ PutFailed(h, 1)
        /\ Cardinality(DownloadsOf(h, 2)) = 1
        /\ h.err

\* C13: in a sequence of SyncTo and SyncFrom calls on the same open handle,
\* the error of a unit is in the error returned by the call that enqueued it
\* and in the error of no other call, and every unit of a returned call has
\* been handed out by the results of the queue.
C13_OutcomeReportedOnce ==
  \A k \in 1..Len(syncHist) : \A u \in 1..Len(pool) :
    /\ SyncError("unit", u) \in syncHist[k].errs
         <=> (pool[u].call = syncHist[k].call /\ pool[u].err)
    /\ pool[u].call = syncHist[k].call => pool[u].yielded

\* C13 witness: a unit of the first call failed, and a second call with a unit
\* of its own has returned
C13_Witness ==
  /\ Len(syncHist) = 2
  /\ \E u \in UnitsOf(syncHist[1].call) : pool[u].err
  /\ UnitsOf(syncHist[2].call) # {}
  /\ syncHist[1].err

\* two SyncFrom calls of the same prefix in a row
SyncFromTwice(k) ==
  /\ k + 1 <= Len(syncHist)
  /\ syncHist[k].op = "SyncFrom"
  /\ syncHist[k + 1].op = "SyncFrom"
  /\ syncHist[k + 1].prefix = syncHist[k].prefix

\* every remote key under the prefix has its file in the local directory
AllLocal(prefix, files) ==
  \A key \in contents(remote, prefix, 0) : key % 1000000 \in files

LastCallAttempts ==
  Len(SelectSeq(trace, LAMBDA e : e = trace[Len(trace)]))

\* C15: with a retry budget N >= 1, a remote call of any kind that kept
\* failing has been made N times before the operation returned its error: the
\* Del of a single-key Delete, the DelMulti of a bulk delete, and the List of
\* a listing, as the remote calls of Exists, Put and Get are (C4).
C15_EveryRemoteCallRetried ==
  (pc = "returned" /\ bucket.numRetries >= 1) =>
    /\ C4_RetryBound
    /\ (ret.op = "Delete" /\ ret.err)
         => Len(Calls(trace, "Del")) = bucket.numRetries
    /\ ( /\ ret.op \in {"DeleteMany", "DeletePrefix", "DeleteMatching"}
         /\ ret.err
         /\ trace # <<>> )
         => LastCallAttempts = bucket.numRetries
    /\ ret.listFailed => Len(Calls(trace, "List")) >= bucket.numRetries

\* C16: an operation whose listing had a failing List call returns a non-nil
\* error: DeleteMany, DeletePrefix and DeleteMatching when they return, and
\* every returned SyncTo and SyncFrom.
C16_ListFailureReturned ==
  /\ (pc = "returned" /\ ret.listFailed) => ret.err
  /\ \A k \in 1..Len(syncHist) : syncHist[k].listErr => syncHist[k].err

\* the handles in use other than h
OtherHandles(h) == {x \in Handles \ {h} : hs[x] # Nil}

\* handle x has, as far as its open flag and its pool go, the state it had
\* before the last call
Untouched(x) ==
  /\ hs[x].open = hLast.before.hs[x].open
  /\ qid[x] = hLast.before.qid[x]
  /\ (qid[x] \in livePools) <=> (hLast.before.qid[x] \in hLast.before.livePools)

\* C17: a Clone that returns a handle gives it the source's name, permission,
\* retry count and job count, leaves the source as it was, and the clone is
\* open exactly if the source was; no two handles ever point to the same
\* pool; and an Open, Close or sync through one handle leaves the open flag
\* and the pool of every other handle as they were.
C17_CloneIndependent ==
  /\ (hLast.op = "Clone" /\ ~hLast.err) =>
       LET source == hLast.before.hs[hLast.h]
           clone  == hs[hLast.j]
       IN  /\ clone # Nil
           /\ clone.name = source.name
           /\ clone.NewFilePermission = source.NewFilePermission
           /\ clone.numRetries = source.numRetries
           /\ clone.numJobs = source.numJobs
           /\ clone.open <=> source.open
           /\ clone.open => qid[hLast.j] \in livePools
           /\ hs[hLast.h] = source
           /\ Untouched(hLast.h)
  /\ \A x \in Handles : \A y \in OtherHandles(x) :
       (hs[x] # Nil /\ qid[x] # 0) => qid[x] # qid[y]
  /\ hLast.op \in {"Open", "Close", "Sync"} =>
       \A x \in OtherHandles(hLast.h) : Untouched(x)

\* C17 witness: a handle whose permission was changed has been cloned while
\* open, and has then been closed, with the clone still open on a live pool
C17_Witness ==
  /\ hLast.op = "Close"
  /\ hLast.before.hs[hLast.h].open
  /\ \E j \in OtherHandles(hLast.h) :
       /\ hs[j].open
       /\ hs[j].NewFilePermission = "public-read"
       /\ qid[j] \in livePools

\* C18: an Open of an open handle and a Close of a closed one change nothing
\* of the handle or its pool, and always a handle that is not open has no live
\* pool and a handle that is open has a started one.
C18_OpenFlagTracksPool ==
  /\ \A h \in Handles :
       hs[h] # Nil => (hs[h].open <=> qid[h] \in livePools)
  /\ ( /\ hLast.op \in {"Open", "Close"}
       /\ hLast.before.hs[hLast.h].open <=> hLast.op = "Open" )
       => /\ hs[hLast.h] = hLast.before.hs[hLast.h]
          /\ Untouched(hLast.h)

\* C19: the subtree of the job's SyncFrom is "development" for a development
\* build, "testing" (not "development", not a series) for a release candidate
\* that is not a development build, and the series "<major>.<minor>" for every
\* other build; and package injection uses the subtree SyncFrom used.
C19_PackageLocation ==
  /\ locPc \in {"inject", "done"} =>
       /\ release.dev => syncFromLoc = "development"
       /\ (~release.dev /\ release.rc > 0) => syncFromLoc = "testing"
       /\ (~release.dev /\ release.rc = 0) =>
            /\ syncFromLoc \notin {"development", "testing"}
            /\ \A v \in Versions :
                 syncFromLoc = Series(v)
                   <=> (v.major = release.major /\ v.minor = release.minor)
       /\ (release.major = 4 /\ release.minor = 2 /\ ~release.dev /\ release.rc = 0)
            => syncFromLoc = "4.2"
  /\ locPc = "done" => injectLoc = syncFromLoc

\* C19 witness: the job of release candidate 4.3-rc1 has synced from and
\* injected into "testing"
C19_Witness ==
  /\ locPc = "done"
  /\ release = [major |-> 4, minor |-> 3, rc |-> 1, dev |-> FALSE]
  /\ syncFromLoc = "testing"
  /\ injectLoc = "testing"

\* the keys DeleteMatching(prefix, expr) is to delete from a store
Matching(store, prefix, expr) ==
  {k \in Range(store) : HasPrefix(k, prefix) /\ MatchString(expr, k)}

\* C20: a DeleteMatching on a non-dry-run handle that returns no error has
\* left no key under the prefix whose name matches the expression, and has
\* deleted no other key; one whose expression does not compile returns an
\* error and has made no List and no delete call.
C20_DeleteMatchingExact ==
  (pc = "returned" /\ ret.op = "DeleteMatching" /\ ~bucket.dryRun) =>
    LET prefix == ret.args[1]
        expr   == ret.args[2]
    IN  /\ ~expr.valid => (ret.err /\ trace = <<>>)
        /\ (expr.valid /\ ~ret.err) =>
             /\ Matching(remote, prefix, expr) = {}
             /\ \A i \in 1..Len(trace) :
                  trace[i].ev = "DelMulti" =>
                    \A k \in Range(trace[i].keys) :
                      HasPrefix(k, prefix) /\ MatchString(expr, k)
             /\ Calls(trace, "Del") = <<>>

\* the largest delay the k-th sleep of a call can take
DelayLimit(k) == Min(BackoffMax, BackoffMin * Pow(BackoffFactor, k - 1))

\* C21 (as stated): within one retried call the delays slept are
\* non-decreasing until one reaches the cap, never exceed the cap and never
\* fall below the base delay, and the call's backoff has counted this call's
\* sleeps only.
C21_DelaysNonDecreasing ==
  /\ backoff.attempt = Len(slept)
  /\ \A k \in 1..Len(slept) :
       /\ BackoffMin <= slept[k]
       /\ slept[k] <= BackoffMax
       /\ (k > 1 /\ slept[k - 1] < BackoffMax) => slept[k - 1] <= slept[k]

\* C21 (amended): the k-th delay of a call lies between the base delay and the
\* smaller of the cap and base * 2^(k-1); the call's backoff has counted this
\* call's sleeps only.
C21_DelaysWithinLimit ==
  /\ backoff.attempt = Len(slept)
  /\ \A k \in 1..Len(slept) :
       /\ BackoffMin <= slept[k]
       /\ slept[k] <= DelayLimit(k)

\* a second call has slept MaxSleeps times, the last time for the cap, after a
\* first delay of the base
C21_Witness ==
  /\ boCalls = 2
  /\ Len(slept) = MaxSleeps
  /\ slept[1] = BackoffMin
  /\ slept[MaxSleeps] = BackoffMax

\* the goroutine of repository r has ended, by returning or by panicking
Ended(r) == tpc[r] \in {"close", "finished", "panicClose", "exit", "crashed"}

\* C22: in a job whose package format is neither RPM nor DEB the process does
\* not crash, no repository's SyncTo is called, a repository whose mkdir,
\* SyncFrom, inject and rebuild succeeded ends with the "unsupported" error
\* added, and Run, once it has returned, has marked the job complete.
C22_UnsupportedFormatRecorded ==
  jobConf.Type \notin {"RPM", "DEB"} =>
    /\ \A t \in Threads : tpc[t] # "crashed"
    /\ \A r \in 1..jobConf.Repos :
         /\ "SyncTo" \notin Range(steps[r])
         /\ (Ended(r) /\ r \notin {e.repo : e \in added \ {RepoErr(r, "unsupported")}})
              => RepoErr(r, "unsupported") \in added
    /\ (tpc[0] = "done" /\ loopI > jobConf.Repos) => IsComplete

\* C23: the top-level handle is closed only after the per-repository
\* goroutines have joined (Run is returning and the wait group is at zero),
\* and the job is complete only once the top-level handle has been closed.
C23_JoinCloseComplete ==
  /\ top.queue = "closed" => (tpc[0] \in {"return", "done", "crashed"} /\ wg = 0)
  /\ IsComplete => top.queue = "closed"

\* whether the job takes the legacy pair: a DEB job of series 3.0 or 2.6
Legacy ==
  /\ sfConf.Type = "DEB"
  /\ \/ sfConf.release.major = 3 /\ sfConf.release.minor = 0
     \/ sfConf.release.major = 2 /\ sfConf.release.minor = 6

\* C24: a returned signFile has selected the legacy key and token exactly for
\* a DEB job of series 3.0 or 2.6 and the series-derived key with the default
\* token otherwise, and when that token is empty it has returned an error
\* without removing a file and without running the signing command.
C24_SignFileToken ==
  sfPc = "returned" =>
    /\ Legacy => (keyName = "richard" /\ token = sfConf.env.NOTARY_TOKEN_DEB_LEGACY)
    /\ ~Legacy =>
         /\ keyName = "server-" \o StableReleaseSeries(sfConf.release)
         /\ token = sfConf.env.NOTARY_TOKEN
    /\ token = "" => (sfErr /\ ~sfRemoved /\ ~sfRan)

\* a DEB job of series 2.6, not overwriting, whose legacy token is not set
\* while the default token is, has returned
C24_Witness ==
  /\ sfPc = "returned"
  /\ Legacy
  /\ sfConf.release.major = 2
  /\ ~sfConf.overwrite
  /\ sfConf.env.NOTARY_TOKEN # ""
  /\ token = ""
  /\ sfErr

\* C25: SetNumJobs on an open handle returns an error and SetNumRetries with a
\* negative value returns an error, both leaving the handle and its pool as
\* they were; an accepted call changes the named field and nothing else.
C25_SettersReject ==
  LET b0 == sbLast.before.sb
  IN  /\ sbLast.op = "SetNumJobs" =>
           /\ sbLast.err <=> b0.open
           /\ sb = IF b0.open THEN b0 ELSE [b0 EXCEPT !.numJobs = sbLast.n]
           /\ sbPool = sbLast.before.sbPool
      /\ sbLast.op = "SetNumRetries" =>
           /\ sbLast.err <=> sbLast.n < 0
           /\ sb = IF sbLast.n < 0 THEN b0 ELSE [b0 EXCEPT !.numRetries = sbLast.n]
           /\ sbPool = sbLast.before.sbPool

\* SetNumJobs has been refused on a handle whose pool is running with another
\* number of workers than the one asked for
C25_Witness ==
  /\ sbLast.op = "SetNumJobs"
  /\ sbLast.err
  /\ sb.queue = "started"
  /\ sbPool = 1
  /\ sbLast.n = 2
  /\ sb.numJobs = 1

\* the store's keys under the prefix, in listing order
UnderPrefix == SelectSeq(lsStore.keys, LAMBDA k : HasPrefix(k, lsPrefix))

\* C26: whatever the store answers, list comes to close its output; every
\* List call asks for at most 1000 keys after the last key sent; and when the
\* output is closed every key under the prefix has been sent exactly once.
C26_ListTerminates ==
  /\ <>(lsPc = "closed")
  /\ [](/\ lsReq.max <= PageSize
        /\ lsReq.max > 0 => lsReq.marker \in {NoKey} \cup Range(output)
        /\ lsPc = "closed" => output = UnderPrefix)

\* the errors the goroutine of repository r has called AddError with
GoErrs(r) == {e \in added : e.repo = r /\ e.step # "clone"}

\* C27: the goroutine of a repository calls mkdir, SyncFrom, inject, rebuild
\* and SyncTo in this order; a step that fails is the last one it calls and
\* makes it add one error, which the error list holds once; and a goroutine
\* that has ended without calling SyncTo has added an error.
C27_StepsInOrder ==
  \A r \in 1..MaxRepos :
    /\ IsPrefix(steps[r], AllSteps)
    /\ Cardinality(GoErrs(r)) <= 1
    /\ Cardinality({i \in 1..Len(Errors) : Errors[i] \in GoErrs(r)}) <= 1
    /\ \A e \in GoErrs(r) :
         e.step \in Range(AllSteps) =>
           (steps[r] # <<>> /\ steps[r][Len(steps[r])] = e.step)
    /\ (Ended(r) /\ steps[r] # AllSteps) => GoErrs(r) # {}

\* the packages the loop skips: for a DEB target, those without the suffix
Skipped == {i \in 1..Len(lpConf.pkgs) : lpConf.Type = "DEB" /\ ~lpConf.pkgs[i].deb}

\* the packages a signing goroutine was started for
SignedPkgs == {i \in 1..MaxPkgs : signPc[i] # "none"}

\* C28: a package the loop skips gets no link, no error and no signing; once
\* the loop is over every other package is in the staging directory or has
\* its own error in the catcher, whatever happened to the others; for an RPM
\* target one signing was started per file put into the staging directory,
\* none for a file that was there already, and for other targets none at all.
C28_LinkEveryPackage ==
  /\ \A i \in Skipped :
       /\ i \notin SignedPkgs
       /\ \A e \in catcher : e.pkg # i
  /\ \A b \in mirrors : \E i \in 1..Len(lpConf.pkgs) \ Skipped : lpConf.pkgs[i].base = b
  /\ lpI > Len(lpConf.pkgs) =>
       \A i \in 1..Len(lpConf.pkgs) \ Skipped :
         \/ lpConf.pkgs[i].base \in mirrors
         \/ LinkErr(i, "mkdir") \in catcher
         \/ LinkErr(i, "link") \in catcher
  /\ Cardinality(SignedPkgs) = IF lpConf.Type = "RPM" THEN Cardinality(mirrors) ELSE 0
  /\ \A i, k \in SignedPkgs : i # k => lpConf.pkgs[i].base # lpConf.pkgs[k].base

\* linkPackages has returned for an RPM target: the link of the first package
\* failed, the second one was linked and signed
C28_Witness ==
  /\ lpPc = "returned"
  /\ lpConf.Type = "RPM"
  /\ Len(lpConf.pkgs) = 2
  /\ LinkErr(1, "link") \in catcher
  /\ SignedPkgs = {2}
  /\ mirrors = {lpConf.pkgs[2].base}

\* C29: a DeleteMany on a non-dry-run handle, when it has returned: with one
\* key it has made exactly one call, the Del of that key, and no List call;
\* with another number of keys it has listed the bucket and made no Del call,
\* every key of a DelMulti call is a requested key, every requested key found
\* in the listing is in a DelMulti call, an error comes from a DelMulti call
\* only, and after a complete listing and no error no requested key remains.
C29_DeleteManyExact ==
  (pc = "returned" /\ ret.op = "DeleteMany" /\ ~bucket.dryRun) =>
    LET paths == ret.args[1]
        bulk  == Calls(trace, "DelMulti")
    IN  IF Len(paths) = 1
        THEN trace = <<Event("Del", <<paths[1]>>)>>
        ELSE /\ Calls(trace, "List") # <<>>
             /\ Calls(trace, "Del") = <<>>
             /\ \A c \in 1..Len(bulk) : Range(bulk[c].keys) \subseteq Range(paths)
             /\ \A i \in 1..Len(items) :
                  \E c \in 1..Len(bulk) : items[i] \in Range(bulk[c].keys)
             /\ ret.err => bulk # <<>>
             /\ (~ret.err /\ ~ret.listFailed) => Range(paths) \cap Range(remote) = {}

\* C30: a Get, when it has returned: the local file was written only if a
\* remote Get call succeeded; if every attempt failed the call returns an
\* error and has neither called MkdirAll nor written the file; if an attempt
\* succeeded the call fails only through MkdirAll or WriteFile, whatever
\* failed before; and if MkdirAll failed the call returns an error and has
\* not written the file.
C30_GetWritesAfterFetch ==
  (pc = "returned" /\ ret.op = "Get") =>
    LET N         == bucket.numRetries
        dirExists == ret.args[2]
        mkdirOk   == ret.args[3]
        writeOk   == ret.args[4]
        fetched   == ret.succAt <= N
    IN  /\ ret.wrote => (fetched /\ Len(Calls(trace, "Get")) = ret.succAt)
        /\ ret.wrote <=> ret.args[1] \in local
        /\ ~fetched => (ret.err /\ ~ret.mkdir /\ ~ret.wrote)
        /\ fetched => (ret.err <=> ((~dirExists /\ ~mkdirOk) \/ ~writeOk))
        /\ (ret.mkdir /\ ~mkdirOk) => (ret.err /\ ~ret.wrote)

\* C31: for every retry budget N >= 0, when the call has returned: a Put on a
\* non-dry-run handle that returned nil has made a remote Put call that
\* succeeded, and it was its last; a Get that returned nil has made a remote
\* Get call that succeeded and has written the file; an Exists that returned a
\* nil error has made a remote Exists call that succeeded and reports its
\* answer.
C31_SuccessMeansContacted ==
  (pc = "returned" /\ ~ret.err) =>
    LET N == bucket.numRetries
    IN  /\ (ret.op = "Put" /\ ~bucket.dryRun) =>
             /\ ret.contacted
             /\ 1 <= ret.succAt /\ ret.succAt <= N
             /\ Len(Calls(trace, "Put")) = ret.succAt
        /\ ret.op = "Get" =>
             /\ ret.contacted
             /\ ret.wrote
             /\ Len(Calls(trace, "Get")) = ret.succAt /\ ret.succAt <= N
        /\ ret.op = "Exists" =>
             /\ ret.contacted
             /\ Len(Calls(trace, "Exists")) = ret.succAt /\ ret.succAt <= N
             /\ ret.val <=> ret.args[1] \in Range(remote)

\* C32: once Run has returned, and from the moment the job is marked
\* complete, every clone Run made for a repository is closed: none is open
\* and none has a started worker pool.
C32_ClonesClosedAtReturn ==
  (tpc[0] = "done" \/ IsComplete) =>
    \A r \in 1..MaxRepos : ~clones[r].open /\ clones[r].queue # "started"

\* C33: an Open that returned an error has left the handle not open and
\* without a live pool; and an Open that returned nil has left the handle on a
\* started pool, so an Open after a failed one starts a pool.
C33_FailedOpenLeavesClosed ==
  hLast.op = "Open" =>
    /\ hLast.err => (~hs[hLast.h].open /\ qid[hLast.h] \notin livePools)
    /\ ~hLast.err => (hs[hLast.h].open /\ qid[hLast.h] \in livePools)

\* C34: doCollection called with a count n >= 1 returns nil only after
\* exactly n invocations of op and n - 1 sleeps; when it returns op's error
\* that was the first failure and, the call having followed k sleeps, the
\* k+1-th invocation; it sleeps only between two invocations and never makes
\* more than n of them; and called with a count of 0 or less it returns only
\* with op's error.
C34_CollectCounts ==
  /\ dcSleeps \in {dcOps - 1, dcOps}
  /\ dcPc = "returned" => dcSleeps = dcOps - 1
  /\ dcArg >= 1 =>
       /\ dcOps <= dcArg
       /\ dcRet = "nil" => (dcOps = dcArg /\ dcSleeps = dcArg - 1)
  /\ dcArg <= 0 => dcRet # "nil"

====
